---- MODULE Spec2Model ----
(***************************************************************************)
(* Service traffic and lifecycle monitor (src/traffic_monitor.py,          *)
(* class TrafficMonitor).                                                  *)
(*                                                                         *)
(* Time is counted in minutes.  Traffic is counted in blocks of 16 KiB, so *)
(* that one GB (1024*1024*1024 bytes) is 65536 blocks and every quantity   *)
(* of the code stays inside the integers of the model checker.  The code's *)
(* percentage  used/total*100  is compared by cross-multiplication; the    *)
(* 4-decimal GB figures of the code are integers counting 0.0001 GB.       *)
(* Binary floating-point error of the code's float arithmetic is not       *)
(* modelled; on the traffic figures enumerated here the float results of   *)
(* the code and the exact results of the model agree.                      *)
(***************************************************************************)
EXTENDS Integers, Sequences, FiniteSets, TLC

\* ------------------------------------------------------------------ bounds
\* The service ids of the store.
ServiceIds == {1}

\* The instants (minutes) at which the clock is observed.
Instants == <<0, 1439, 1440, 1441, 2880, 2881, 2882, 4320>>

\* The number of instants of a run.
Horizon == 7

\* Python's None for a timestamp column.
NoTime == -1

GB == (1024 * 1024 * 1024) \div 16384

\* Quotas the panel reports for a client (blocks); <= 0 means unlimited.
TotalChoices == {0 - GB, 0, 5 * GB, 20 * GB}

\* Usage figures the panel may report for a client of the given quota.
UsedChoices(total) ==
    IF total <= 0 THEN {0, 20 * GB}
    ELSE {0, (total * 75) \div 100, total, (total * 105) \div 100,
          (total * 110) \div 100}

\* expires_at of a plan service (minutes).
ExpiryChoices == {1441, 7000}

RemoteOutcomes == {"unreachable", "failed", "ok"}

\* The event loop's clock counts ticks; so many ticks make one second.
TicksPerSecond == 2

\* The last tick of a run of the dispatcher.
MaxTime == 6

\* The number of messages the producers enqueue in a run of the dispatcher.
MaxMessages == 3

\* The chat ids the producers address.
Recipients == {1, 2}

\* self.min_message_interval (seconds) and the size of self.message_semaphore.
min_message_interval == 1

MaxConcurrentSends == 5

SendOutcomes == {"ok", "error"}

VARIABLES
    clock,            \* index into Instants: datetime.now()
    monitoring,       \* self.monitoring
    pc,               \* position of the scheduling loop
    services,         \* the list fetched by get_all_active_services (snapshot)
    panels_todo,      \* panel tasks of this cycle not yet started
    todo,             \* per-service tasks of this cycle not yet run
    pending_updates,  \* self.pending_updates
    message_queue,    \* self.message_queue
    db,               \* the store: one record per service id
    users,            \* the store: user ids that get_user_by_id finds
    panel,            \* the remote panel: one client per service
    calls,            \* history: collaborator calls made so far, per service
    trace,            \* history: what the current cycle did, per service (cleared by sleep)
    loop_time,        \* asyncio.get_event_loop().time(), in ticks
    worker,           \* the task of _process_message_queue: position, item, deadline
    message_semaphore,\* free slots of self.message_semaphore
    last_message_time,\* self.last_message_time
    sends,            \* history: the send attempts of the dispatcher, in order
    raised,           \* a pass of this iteration caught and logged an exception
    bulk_writes,      \* history: the calls of bulk_update_client_status of this cycle
    skipped_panels,   \* history: the panels whose task of this cycle returned at login
    panel_task,       \* a panel task: its path, its semaphore, its suspended tasks
    inbounds,         \* the answer of panel_manager.get_inbounds()
    all_clients,      \* the dictionary get_all_clients_from_panel_batch returns
    wall,             \* time.time(), in tenths of a second
    check_start_time, \* check_start_time of the iteration of the loop
    cycle_starts,     \* history: time.time() at each start of an iteration
    loop_tasks,       \* the coroutines of start_monitoring: position of each
    worker_tasks      \* the tasks of _process_message_queue: position of each

monitor_vars == <<clock, services, panels_todo, todo, pending_updates,
                  db, users, panel, calls, raised, bulk_writes,
                  skipped_panels, panel_task>>

dispatch_vars == <<loop_time, worker, message_semaphore, last_message_time, sends>>

\* The state of the panel dump, of the loop's timing and of the tasks of
\* repeated starts.
aside_vars == <<inbounds, all_clients, wall, check_start_time, cycle_starts,
                loop_tasks, worker_tasks>>

vars == <<clock, monitoring, pc, services, panels_todo, todo, pending_updates,
          message_queue, db, users, panel, calls, trace,
          loop_time, worker, message_semaphore, last_message_time, sends,
          raised, bulk_writes, skipped_panels, panel_task,
          inbounds, all_clients, wall, check_start_time, cycle_starts,
          loop_tasks, worker_tasks>>

Services == DOMAIN db

now == Instants[clock]

\* ------------------------------------------------------- the world record
\* The handlers below are sequential code: each is a function from the
\* state it finds to the state it leaves.  w carries the mutable state.
World ==
    [db |-> db, panel |-> panel, message_queue |-> message_queue,
     pending_updates |-> pending_updates, calls |-> calls,
     trace |-> trace]

Count(w, sid, what) == w.calls[sid][what]

Called(w, sid, what) ==
    [w EXCEPT !.calls[sid][what] = @ + 1]

\* The cycle's record of one step taken for service sid.
Log(w, sid, op, arg) ==
    [w EXCEPT !.trace[sid] = Append(@, [op |-> op, arg |-> arg])]

\* ------------------------------------------------------------- the store
\* (professional_database.ProfessionalDatabaseManager is not part of the
\* sources at hand; its operations follow the interface of the design.)
get_all_active_services(w) ==
    {s \in Services : w.db[s].exists /\ w.db[s].is_active}

get_user_by_id(user_id) == user_id \in users

get_service_warning_flags(w, sid) == w.db[sid]

update_service_status(w, sid, status) ==
    LET w1 == Log(w, sid, "update_service_status", status)
    IN  IF w.db[sid].exists THEN [w1 EXCEPT !.db[sid].status = status] ELSE w1

update_service_exhaustion_time(w, sid) ==
    LET w1 == Log(w, sid, "update_service_exhaustion_time", "now")
    IN  IF w.db[sid].exists THEN [w1 EXCEPT !.db[sid].exhausted_at = now] ELSE w1

update_service_expiration_time(w, sid) ==
    LET w1 == Log(w, sid, "update_service_expiration_time", "now")
    IN  IF w.db[sid].exists THEN [w1 EXCEPT !.db[sid].expired_at = now] ELSE w1

\* A warning-flag column is written; the history counts its false->true changes.
set_flag(w, sid, flag, counter, warned) ==
    LET w0 == Log(w, sid, "set_flag", flag)
    IN  IF ~w.db[sid].exists THEN w0
        ELSE LET w1 == IF warned /\ ~w.db[sid][flag]
                       THEN Called(w0, sid, counter) ELSE w0
             IN  [w1 EXCEPT !.db[sid][flag] = warned]

update_service_70_percent_warning(w, sid, warned) ==
    set_flag(w, sid, "warned_70_percent", "set_70", warned)

update_service_100_percent_warning(w, sid, warned) ==
    set_flag(w, sid, "warned_100_percent", "set_100", warned)

update_service_warned_one_week(w, sid, warned) ==
    set_flag(w, sid, "warned_one_week", "set_one_week", warned)

update_service_expired_warning(w, sid, warned) ==
    set_flag(w, sid, "warned_expired", "set_expired", warned)

delete_service(w, sid) ==
    LET w1 == Called(Log(w, sid, "delete_service", ""), sid, "delete_service")
    IN  [w1 EXCEPT !.db[sid].exists = FALSE, !.db[sid].is_active = FALSE]

\* Disabled services whose anchor is 24 hours old or older.
get_services_for_deletion(w) ==
    {s \in Services : /\ w.db[s].exists
                      /\ w.db[s].status = "disabled"
                      /\ w.db[s].exhausted_at # NoTime
                      /\ now - w.db[s].exhausted_at >= 24 * 60}

get_expired_plan_services_for_deletion(w) ==
    {s \in Services : /\ w.db[s].exists
                      /\ w.db[s].status = "disabled"
                      /\ w.db[s].product_id # "None"
                      /\ w.db[s].expired_at # NoTime
                      /\ now - w.db[s].expired_at >= 24 * 60}

bulk_update_client_status(w, updates) ==
    [w EXCEPT !.db = [s \in Services |->
        IF w.db[s].exists /\ \E i \in 1 .. Len(updates) : updates[i].id = s
        THEN [w.db[s] EXCEPT !.used_gb =
                 updates[CHOOSE i \in 1 .. Len(updates) :
                            /\ updates[i].id = s
                            /\ \A j \in i + 1 .. Len(updates) : updates[j].id # s].used_gb]
        ELSE w.db[s]]]

\* ------------------------------------------------------ the panel adapter
\* outcome: "unreachable" (no manager, or login() false: the client call is
\* not made), "failed" (the call returns false), "ok".
disable_client(w, sid, outcome) ==
    LET w1 == Log(w, sid, "disable_client", outcome)
    IN  IF outcome = "ok" THEN [w1 EXCEPT !.panel[sid].enable = FALSE] ELSE w1

delete_client(w, sid, outcome) ==
    LET w1 == Called(Log(w, sid, "delete_client", outcome), sid, "delete_client")
    IN  IF outcome = "ok" THEN [w1 EXCEPT !.panel[sid].present = FALSE] ELSE w1

\* ------------------------------------------------------- pure arithmetic
\* Python's round(n/d): to the nearest integer, ties to the even one.
RoundHalfEven(n, d) ==
    LET f == n \div d
        r == n % d
    IN  IF 2 * r < d THEN f
        ELSE IF 2 * r > d THEN f + 1
        ELSE IF f % 2 = 0 THEN f ELSE f + 1

\* round(bytes / (1024*1024*1024), 4) if bytes > 0 else 0, in units of 0.0001 GB.
to_gb(bytes) ==
    IF bytes > 0
    THEN (bytes \div GB) * 10000 + RoundHalfEven((bytes % GB) * 10000, GB)
    ELSE 0

\* usage_percentage >= p, for usage_percentage = (used / total) * 100, total > 0.
usage_at_least(used, total, p) == used * 100 >= p * total

\* timedelta.total_seconds() and timedelta.days of a difference in minutes.
total_seconds(time_diff) == time_diff * 60

\* Mutant: the difference is rounded to the nearest day.
days_rounded(time_diff) == (time_diff + 12 * 60) \div (24 * 60)

days(time_diff) == time_diff \div (24 * 60)

\* ------------------------------------------------- notification producers
_send_message_safe(w, chat_id, kind, sid) ==
    [Log(w, sid, "enqueue", kind) EXCEPT !.message_queue =
        Append(@, [chat_id |-> chat_id, kind |-> kind, sid |-> sid])]

send_exhaustion_notification(w, service) ==
    IF ~get_user_by_id(service.user_id) THEN w
    ELSE IF get_service_warning_flags(w, service.id).warned_100_percent THEN w
    ELSE update_service_100_percent_warning(
             _send_message_safe(w, service.user_id, "exhausted", service.id),
             service.id, TRUE)

send_70_percent_warning(w, service) ==
    IF ~get_user_by_id(service.user_id) THEN w
    ELSE IF get_service_warning_flags(w, service.id).warned_70_percent THEN w
    ELSE _send_message_safe(w, service.user_id, "warn70", service.id)

send_three_days_expiration_warning(w, service) ==
    IF ~get_user_by_id(service.user_id) THEN w
    ELSE _send_message_safe(w, service.user_id, "warn3days", service.id)

send_plan_expiration_notification(w, service) ==
    IF ~get_user_by_id(service.user_id) THEN w
    ELSE IF get_service_warning_flags(w, service.id).warned_expired THEN w
    ELSE update_service_expired_warning(
             _send_message_safe(w, service.user_id, "expired", service.id),
             service.id, TRUE)

\* ------------------------------------------------------------ delete paths
\* bot.send_message is called directly, not through the queue.
send_deletion_message(w, service) ==
    IF get_user_by_id(service.user_id)
    THEN Called(Log(w, service.id, "send_message", ""), service.id, "send_message")
    ELSE w

\* The reporting system as the delete paths look for it.  The monitor runs
\* with a bot_instance that carries one; self.bot is the telegram Bot that
\* start_monitoring creates, which has no such attribute.
bot_instance_reporting_system == TRUE

bot_reporting_system == FALSE

\* if user: ... if reporting_system: await report_service_auto_deleted(...)
report_service_auto_deleted(w, service, reporting_system) ==
    IF get_user_by_id(service.user_id) /\ reporting_system
    THEN Log(w, service.id, "report", "service_auto_deleted")
    ELSE w

\* if panel_manager and panel_manager.login(): the client call; else: a log line.
remote_delete(w, service, outcome) ==
    IF outcome = "unreachable"
    THEN Log(w, service.id, "connect", "unreachable")
    ELSE delete_client(w, service.id, outcome)

remote_disable(w, service, outcome) ==
    IF outcome = "unreachable"
    THEN Log(w, service.id, "connect", "unreachable")
    ELSE disable_client(w, service.id, outcome)

\* Mutant: the client is deleted on the panel, the store record is kept.
delete_service_for_overage_panel_only(w, service, outcome) ==
    LET w0 == Called(Log(w, service.id, "enter", "delete_service_for_overage"),
                     service.id, "overage_delete")
    IN  send_deletion_message(remote_delete(w0, service, outcome), service)

delete_service_for_overage(w, service, outcome) ==
    LET w0 == Called(Log(w, service.id, "enter", "delete_service_for_overage"),
                     service.id, "overage_delete")
    IN  report_service_auto_deleted(
            send_deletion_message(
                delete_service(remote_delete(w0, service, outcome), service.id), service),
            service, bot_instance_reporting_system \/ bot_reporting_system)

\* Mutant: the store record is kept when the panel did not delete the client.
delete_exhausted_service_remote_first(w, service, outcome) ==
    LET w0 == Log(w, service.id, "enter", "delete_exhausted_service")
        w1 == remote_delete(w0, service, outcome)
    IN  IF outcome = "ok"
        THEN send_deletion_message(delete_service(w1, service.id), service)
        ELSE w1

delete_exhausted_service(w, service, outcome) ==
    LET w0 == Log(w, service.id, "enter", "delete_exhausted_service")
    IN  report_service_auto_deleted(
            send_deletion_message(
                delete_service(remote_delete(w0, service, outcome), service.id), service),
            service, bot_instance_reporting_system \/ bot_reporting_system)

\* Mutant: the store record is deleted only after the panel deleted the client.
delete_expired_plan_service_remote_first(w, service, outcome) ==
    LET w0 == Log(w, service.id, "enter", "delete_expired_plan_service")
        w1 == remote_delete(w0, service, outcome)
    IN  IF outcome = "ok"
        THEN send_deletion_message(delete_service(w1, service.id), service)
        ELSE w1

\* The report of this path looks for the reporting system on self.bot only.
delete_expired_plan_service(w, service, outcome) ==
    LET w0 == Log(w, service.id, "enter", "delete_expired_plan_service")
    IN  report_service_auto_deleted(
            send_deletion_message(
                delete_service(remote_delete(w0, service, outcome), service.id), service),
            service, bot_reporting_system)

\* --------------------------------------------------------- overage checks
\* if time_diff.total_seconds() > 24 * 3600: return
grace_period_passed(time_diff) == total_seconds(time_diff) > 24 * 3600

\* overage_gb, from the 4-decimal GB figures, in units of 0.0001 GB.
overage_gb(used_gb, total_gb) ==
    IF used_gb > total_gb THEN used_gb - total_gb ELSE 0

\* Mutant: both limits have to be exceeded.
limits_exceeded_both(used, total, used_gb, total_gb) ==
    usage_at_least(used, total, 110) /\ overage_gb(used_gb, total_gb) >= 10000

\* if usage_percentage >= 110 or overage_gb >= 1.0
limits_exceeded(used, total, used_gb, total_gb) ==
    usage_at_least(used, total, 110) \/ overage_gb(used_gb, total_gb) >= 10000

check_disabled_service_overage(w, service, used, total, used_gb, total_gb, outcome) ==
    IF service.exhausted_at = NoTime THEN w
    ELSE IF grace_period_passed(now - service.exhausted_at) THEN w
    ELSE IF limits_exceeded(used, total, used_gb, total_gb)
         THEN delete_service_for_overage(w, service, outcome)
         ELSE w

check_expired_service_overage(w, service, used, total, used_gb, total_gb, outcome) ==
    IF service.expired_at = NoTime THEN w
    ELSE IF grace_period_passed(now - service.expired_at) THEN w
    ELSE IF limits_exceeded(used, total, used_gb, total_gb)
         THEN delete_service_for_overage(w, service, outcome)
         ELSE w

\* ----------------------------------------------------------- disable paths
\* Mutant: the result of disable_client is not looked at.
handle_traffic_exhausted_unchecked(w, service, outcome) ==
    IF service.status = "disabled" THEN w
    ELSE send_exhaustion_notification(
             update_service_exhaustion_time(
                 update_service_status(
                     remote_disable(Log(w, service.id, "enter", "handle_traffic_exhausted"),
                                    service, outcome),
                     service.id, "disabled"),
                 service.id),
             service)

\* Mutant: the anchor is written, the status is not.
handle_traffic_exhausted_keeps_status(w, service, outcome) ==
    IF service.status = "disabled" THEN w
    ELSE LET w1 == remote_disable(Log(w, service.id, "enter", "handle_traffic_exhausted"),
                                  service, outcome)
         IN  IF outcome = "ok"
             THEN send_exhaustion_notification(
                      update_service_exhaustion_time(w1, service.id), service)
             ELSE w1

handle_traffic_exhausted(w, service, outcome) ==
    IF service.status = "disabled" THEN w
    ELSE LET w1 == remote_disable(Log(w, service.id, "enter", "handle_traffic_exhausted"),
                                  service, outcome)
         IN  IF outcome = "ok"
             THEN send_exhaustion_notification(
                      update_service_exhaustion_time(
                          update_service_status(w1, service.id, "disabled"),
                          service.id),
                      service)
             ELSE w1

\* Mutant: the store is updated before the panel is asked.
handle_plan_expiration_store_first(w, service, outcome) ==
    LET w0 == Log(w, service.id, "enter", "handle_plan_expiration")
        w1 == update_service_expiration_time(
                  update_service_status(w0, service.id, "disabled"), service.id)
        w2 == remote_disable(w1, service, outcome)
    IN  IF outcome = "ok"
        THEN send_plan_expiration_notification(w2, service)
        ELSE w2

\* Mutant: the expiry handler writes the exhaustion anchor.
handle_plan_expiration_exhausted(w, service, outcome) ==
    LET w1 == remote_disable(Log(w, service.id, "enter", "handle_plan_expiration"),
                             service, outcome)
    IN  IF outcome = "ok"
             THEN send_plan_expiration_notification(
                      update_service_exhaustion_time(
                          update_service_status(w1, service.id, "disabled"),
                          service.id),
                      service)
             ELSE w1

handle_plan_expiration(w, service, outcome) ==
    LET w1 == remote_disable(Log(w, service.id, "enter", "handle_plan_expiration"),
                             service, outcome)
    IN  IF outcome = "ok"
             THEN send_plan_expiration_notification(
                      update_service_expiration_time(
                          update_service_status(w1, service.id, "disabled"),
                          service.id),
                      service)
             ELSE w1

\* ------------------------------------------------------------ evaluation
\* Mutant: the warned flag of the service is not looked at.
three_days_warning_due_unflagged(service, remaining_days) ==
    remaining_days <= 3 /\ remaining_days > 0

\* if remaining_days <= 3 and remaining_days > 0 and not warned_three_days
three_days_warning_due(service, remaining_days) ==
    remaining_days <= 3 /\ remaining_days > 0 /\ ~service.warned_one_week

\* Mutant: the quota is read from the usage field.
client_total_swapped(client) == client.used_traffic

\* total_traffic_bytes = client.get('total_traffic', 0)
client_total(client) == client.total_traffic

\* used_traffic_bytes = client.get('used_traffic', 0)
client_used(client) == client.used_traffic

\* o: the outcomes of the remote calls this evaluation may make.
check_plan_expiration(w, service, client, o) ==
    IF service.product_id = "None" \/ service.expires_at = NoTime THEN w
    ELSE
      LET time_diff == service.expires_at - now
          remaining_days == days(time_diff)
          w1 == IF three_days_warning_due(service, remaining_days)
                THEN update_service_warned_one_week(
                         send_three_days_expiration_warning(w, service),
                         service.id, TRUE)
                ELSE w
          total == client_total(client)
          used == client_used(client)
      IN  IF service.expires_at <= now
          THEN IF service.status # "disabled"
               THEN handle_plan_expiration(w1, service, o.disable_plan)
               ELSE IF service.expired_at # NoTime /\ total > 0
                    THEN check_expired_service_overage(
                             w1, service, used, total, to_gb(used), to_gb(total),
                             o.delete_plan)
                    ELSE w1
          ELSE w1

\* Mutant: the warning threshold is 80%.
warning_70_due_late(service, used, total) ==
    /\ usage_at_least(used, total, 80)
    /\ ~usage_at_least(used, total, 100)
    /\ ~service.warned_70_percent
    /\ service.status # "disabled"

\* if usage_percentage >= 70 and usage_percentage < 100, not warned, not disabled
warning_70_due(service, used, total) ==
    /\ usage_at_least(used, total, 70)
    /\ ~usage_at_least(used, total, 100)
    /\ ~service.warned_70_percent
    /\ service.status # "disabled"

\* Mutant: the usage of an unlimited service is not staged.
process_client_traffic_limited_only(w, service, client, o) ==
    LET w1 == IF service.product_id # "None"
              THEN check_plan_expiration(w, service, client, o)
              ELSE w
        total == client_total(client)
        used == client_used(client)
        used_gb == to_gb(used)
        total_gb == to_gb(total)
        w2 == [Log(w1, service.id, "stage", "used_gb") EXCEPT !.pending_updates =
                  Append(@, [id |-> service.id, used_gb |-> used_gb])]
    IN  IF total <= 0 THEN w1
        ELSE
          LET w3 == IF warning_70_due(service, used, total)
                    THEN update_service_70_percent_warning(
                             send_70_percent_warning(w2, service), service.id, TRUE)
                    ELSE w2
          IN  IF usage_at_least(used, total, 100)
              THEN IF service.status # "disabled"
                   THEN handle_traffic_exhausted(w3, service, o.disable_traffic)
                   ELSE check_disabled_service_overage(
                            w3, service, used, total, used_gb, total_gb,
                            o.delete_traffic)
              ELSE w3

process_client_traffic(w, service, client, o) ==
    LET w1 == IF service.product_id # "None"
              THEN check_plan_expiration(w, service, client, o)
              ELSE w
        total == client_total(client)
        used == client_used(client)
        used_gb == to_gb(used)
        total_gb == to_gb(total)
        w2 == [Log(w1, service.id, "stage", "used_gb") EXCEPT !.pending_updates =
                  Append(@, [id |-> service.id, used_gb |-> used_gb])]
    IN  IF total <= 0 THEN w2
        ELSE
          LET w3 == IF warning_70_due(service, used, total)
                    THEN update_service_70_percent_warning(
                             send_70_percent_warning(w2, service), service.id, TRUE)
                    ELSE w2
          IN  IF usage_at_least(used, total, 100)
              THEN IF service.status # "disabled"
                   THEN handle_traffic_exhausted(w3, service, o.disable_traffic)
                   ELSE check_disabled_service_overage(
                            w3, service, used, total, used_gb, total_gb,
                            o.delete_traffic)
              ELSE w3

\* The client's details, from the batch dump or the direct call: both read
\* the panel; a client the panel no longer has yields nothing.
check_service_traffic_optimized(w, service, o) ==
    LET client_details == w.panel[service.id]
    IN  IF ~client_details.present THEN w
        ELSE process_client_traffic(w, service, client_details, o)

EvaluationOutcomes ==
    [disable_plan : RemoteOutcomes, delete_plan : RemoteOutcomes,
     disable_traffic : RemoteOutcomes, delete_traffic : RemoteOutcomes]

\* ------------------------------------------------------------------ Init
\* No panel task has created its per-service tasks.
NoPanelTask == [path |-> "none", semaphore |-> 0, running |-> {}]

\* No dump fetched, the loop's clock at zero, no task created.
InitAside ==
    /\ inbounds = <<>>
    /\ all_clients = <<>>
    /\ wall = 0
    /\ check_start_time = 0
    /\ cycle_starts = <<>>
    /\ loop_tasks = <<>>
    /\ worker_tasks = <<>>

NoItem == [chat_id |-> 0, kind |-> "none", sid |-> 0]

\* __init__: an empty queue, a free semaphore, no last message time; the
\* worker task does not exist yet.
InitDispatcher ==
    /\ loop_time = 0
    /\ worker = [pc |-> "none", item |-> NoItem, wake_at |-> 0]
    /\ message_semaphore = MaxConcurrentSends
    /\ last_message_time = [c \in {} |-> 0]
    /\ sends = <<>>

NoCalls ==
    [delete_client |-> 0, delete_service |-> 0,
     send_message |-> 0, overage_delete |-> 0,
     set_70 |-> 0, set_100 |-> 0, set_one_week |-> 0, set_expired |-> 0]

\* A service as the purchase flow creates it: active, no flag, no anchor.
NewService(sid, product_id, expires_at) ==
    [id |-> sid, user_id |-> sid, panel_id |-> sid,
     product_id |-> product_id, expires_at |-> expires_at,
     exists |-> TRUE, is_active |-> TRUE, status |-> "active",
     exhausted_at |-> NoTime, expired_at |-> NoTime,
     warned_70_percent |-> FALSE, warned_100_percent |-> FALSE,
     warned_one_week |-> FALSE, warned_expired |-> FALSE,
     used_gb |-> 0]

ServiceChoices(sid) ==
    {NewService(sid, "None", NoTime)}
      \cup {NewService(sid, "Plan", e) : e \in ExpiryChoices}

ClientChoices ==
    {[present |-> TRUE, enable |-> TRUE, total_traffic |-> t, used_traffic |-> 0] :
        t \in TotalChoices}

Init ==
    /\ clock = 1
    /\ monitoring = FALSE
    /\ pc = "stopped"
    /\ services = [s \in {} |-> 0]
    /\ panels_todo = {}
    /\ todo = {}
    /\ pending_updates = <<>>
    /\ message_queue = <<>>
    /\ db \in [ServiceIds -> UNION {ServiceChoices(s) : s \in ServiceIds}]
    /\ \A s \in ServiceIds : db[s] \in ServiceChoices(s)
    /\ users \in SUBSET ServiceIds
    /\ panel \in [ServiceIds -> ClientChoices]
    /\ calls = [s \in ServiceIds |-> NoCalls]
    /\ trace = [s \in ServiceIds |-> <<>>]
    /\ raised = FALSE
    /\ bulk_writes = <<>>
    /\ skipped_panels = {}
    /\ panel_task = NoPanelTask
    /\ InitAside
    /\ InitDispatcher

\* --------------------------------------------------------------- actions
Install(w) ==
    /\ db' = w.db
    /\ panel' = w.panel
    /\ message_queue' = w.message_queue
    /\ pending_updates' = w.pending_updates
    /\ calls' = w.calls
    /\ trace' = w.trace

\* start_monitoring, up to the first cycle: the flag is set and the task of
\* _process_message_queue created.
start_monitoring ==
    /\ pc = "stopped"
    /\ monitoring' = TRUE
    /\ pc' = "loop"
    /\ worker' = [worker EXCEPT !.pc = "top"]
    /\ UNCHANGED <<clock, services, panels_todo, todo, pending_updates,
                   message_queue, db, users, panel, calls, trace,
                   loop_time, message_semaphore, last_message_time, sends,
                   raised, bulk_writes, skipped_panels, panel_task, aside_vars>>

\* check_all_services, up to the creation of the panel tasks.
check_all_services ==
    /\ pc = "loop"
    /\ monitoring
    /\ LET active == get_all_active_services(World)
       IN  /\ services' = [s \in active |-> db[s]]
           /\ panels_todo' = {db[s].panel_id : s \in active}
           /\ pc' = IF active = {} THEN "deletion" ELSE "panels"
    /\ pending_updates' = <<>>
    /\ todo' = {}
    /\ UNCHANGED <<clock, monitoring, message_queue, db, users, panel, calls, trace>>
    /\ UNCHANGED <<raised, bulk_writes, skipped_panels, panel_task, dispatch_vars, aside_vars>>

\* Mutant: the per-service tasks are created whatever login() returns.
check_panel_services_parallel_anyway(panel_id) ==
    /\ pc = "panels"
    /\ panel_id \in panels_todo
    /\ panels_todo' = panels_todo \ {panel_id}
    /\ \E login \in BOOLEAN :
          /\ todo' = todo \cup {s \in DOMAIN services : services[s].panel_id = panel_id}
          /\ skipped_panels' = IF login THEN skipped_panels
                               ELSE skipped_panels \cup {panel_id}
    /\ UNCHANGED <<clock, monitoring, pc, services, pending_updates,
                   message_queue, db, users, panel, calls, trace>>
    /\ UNCHANGED <<raised, bulk_writes, panel_task, dispatch_vars, aside_vars>>

\* One panel task, up to the creation of its per-service tasks.
\* login: FALSE when there is no panel manager, or login() is false or raises.
check_panel_services_parallel(panel_id) ==
    /\ pc = "panels"
    /\ panel_id \in panels_todo
    /\ panels_todo' = panels_todo \ {panel_id}
    /\ \E login \in BOOLEAN :
          /\ todo' = IF login
                     THEN todo \cup {s \in DOMAIN services : services[s].panel_id = panel_id}
                     ELSE todo
          /\ skipped_panels' = IF login THEN skipped_panels
                               ELSE skipped_panels \cup {panel_id}
    /\ UNCHANGED <<clock, monitoring, pc, services, pending_updates,
                   message_queue, db, users, panel, calls, trace>>
    /\ UNCHANGED <<raised, bulk_writes, panel_task, dispatch_vars, aside_vars>>

\* One per-service task: check_service_traffic_optimized on the snapshot.
EvaluateService(sid) ==
    /\ pc = "panels"
    /\ sid \in todo
    /\ todo' = todo \ {sid}
    /\ \E o \in EvaluationOutcomes :
          Install(check_service_traffic_optimized(World, services[sid], o))
    /\ UNCHANGED <<clock, monitoring, pc, services, panels_todo, users>>
    /\ UNCHANGED <<raised, bulk_writes, skipped_panels, panel_task, dispatch_vars, aside_vars>>

\* Mutant: the list is not cleared before the write.
flush_updates_uncleared ==
    /\ pc = "panels"
    /\ panels_todo = {}
    /\ todo = {}
    /\ panel_task.running = {}
    /\ \E written \in BOOLEAN :
          /\ db' = IF pending_updates # <<>> /\ written
                   THEN bulk_update_client_status(World, pending_updates).db
                   ELSE db
          /\ bulk_writes' = IF pending_updates # <<>>
                            THEN Append(bulk_writes,
                                        [updates |-> pending_updates, ok |-> written])
                            ELSE bulk_writes
    /\ services' = [s \in {} |-> 0]
    /\ pc' = "deletion"
    /\ UNCHANGED <<clock, monitoring, panels_todo, todo, pending_updates,
                   message_queue, users, panel, calls, trace>>
    /\ panel_task' = NoPanelTask
    /\ UNCHANGED <<raised, skipped_panels, dispatch_vars, aside_vars>>

\* Mutant: a write that failed leaves its entries in the list.
flush_updates_retry ==
    /\ pc = "panels"
    /\ panels_todo = {}
    /\ todo = {}
    /\ panel_task.running = {}
    /\ \E written \in BOOLEAN :
          /\ db' = IF pending_updates # <<>> /\ written
                   THEN bulk_update_client_status(World, pending_updates).db
                   ELSE db
          /\ bulk_writes' = IF pending_updates # <<>>
                            THEN Append(bulk_writes,
                                        [updates |-> pending_updates, ok |-> written])
                            ELSE bulk_writes
          /\ pending_updates' = IF written THEN <<>> ELSE pending_updates
    /\ services' = [s \in {} |-> 0]
    /\ pc' = "deletion"
    /\ UNCHANGED <<clock, monitoring, panels_todo, todo, message_queue,
                   users, panel, calls, trace>>
    /\ panel_task' = NoPanelTask
    /\ UNCHANGED <<raised, skipped_panels, dispatch_vars, aside_vars>>

\* The end of check_all_services: the gather is over, the buffer is flushed.
\* written: whether bulk_update_client_status returned or raised.
flush_updates ==
    /\ pc = "panels"
    /\ panels_todo = {}
    /\ todo = {}
    /\ panel_task.running = {}
    /\ \E written \in BOOLEAN :
          /\ db' = IF pending_updates # <<>> /\ written
                   THEN bulk_update_client_status(World, pending_updates).db
                   ELSE db
          /\ bulk_writes' = IF pending_updates # <<>>
                            THEN Append(bulk_writes,
                                        [updates |-> pending_updates, ok |-> written])
                            ELSE bulk_writes
    /\ pending_updates' = <<>>
    /\ services' = [s \in {} |-> 0]
    /\ pc' = "deletion"
    /\ UNCHANGED <<clock, monitoring, panels_todo, todo, message_queue,
                   users, panel, calls, trace>>
    /\ panel_task' = NoPanelTask
    /\ UNCHANGED <<raised, skipped_panels, dispatch_vars, aside_vars>>

RECURSIVE DeleteEach(_, _, _, _)
\* for service in <list>: await self.<delete>(service), in the list's order.
DeleteEach(w, sids, outcomes, expired_plan) ==
    IF sids = {} THEN w
    ELSE LET sid == CHOOSE x \in sids : \A y \in sids : x <= y
             w1 == IF expired_plan
                   THEN delete_expired_plan_service(w, w.db[sid], outcomes[sid])
                   ELSE delete_exhausted_service(w, w.db[sid], outcomes[sid])
         IN  DeleteEach(w1, sids \ {sid}, outcomes, expired_plan)

check_for_deletion ==
    /\ pc = "deletion"
    /\ \E o1, o2 \in [Services -> RemoteOutcomes] :
          LET w1 == DeleteEach(World, get_services_for_deletion(World), o1, FALSE)
              w2 == DeleteEach(w1, get_expired_plan_services_for_deletion(w1), o2, TRUE)
          IN  Install(w2)
    /\ pc' = "sleep"
    /\ UNCHANGED <<clock, monitoring, services, panels_todo, todo, users>>
    /\ UNCHANGED <<raised, bulk_writes, skipped_panels, panel_task, dispatch_vars, aside_vars>>

\* asyncio.sleep between two cycles: time passes.
sleep ==
    /\ pc = "sleep"
    /\ \E c \in clock + 1 .. Horizon : clock' = c
    /\ pc' = "loop"
    /\ trace' = [s \in Services |-> <<>>]
    /\ raised' = FALSE
    /\ bulk_writes' = <<>>
    /\ skipped_panels' = {}
    /\ UNCHANGED <<monitoring, services, panels_todo, todo, pending_updates,
                   message_queue, db, users, panel, calls>>
    /\ UNCHANGED <<panel_task, dispatch_vars, aside_vars>>

\* The environment, between two cycles: the client of a service consumes traffic.
UseTraffic(sid) ==
    /\ pc = "loop"
    /\ panel[sid].present
    /\ \E u \in UsedChoices(panel[sid].total_traffic) :
          /\ u > panel[sid].used_traffic
          /\ panel' = [panel EXCEPT ![sid].used_traffic = u]
    /\ UNCHANGED <<clock, monitoring, pc, services, panels_todo, todo,
                   pending_updates, message_queue, db, users, calls, trace>>
    /\ UNCHANGED <<raised, bulk_writes, skipped_panels, panel_task, dispatch_vars, aside_vars>>

Next ==
    \/ start_monitoring
    \/ check_all_services
    \/ \E p \in Services : check_panel_services_parallel(p)
    \/ \E s \in Services : EvaluateService(s)
    \/ flush_updates
    \/ check_for_deletion
    \/ sleep
    \/ \E s \in Services : UseTraffic(s)

Spec == Init /\ [][Next]_vars

\* ------------------------------------------------- two panels, two services
\* The cycles of a monitor with two volume services, each on its own panel,
\* started when two instants of the run are left.
PanelServiceIds == {1, 2}

InitPanels ==
    /\ clock = Horizon - 1
    /\ monitoring = FALSE
    /\ pc = "stopped"
    /\ services = [s \in {} |-> 0]
    /\ panels_todo = {}
    /\ todo = {}
    /\ pending_updates = <<>>
    /\ message_queue = <<>>
    /\ db = [s \in PanelServiceIds |-> NewService(s, "None", NoTime)]
    /\ users = PanelServiceIds
    /\ panel \in [PanelServiceIds ->
                     {c \in ClientChoices : c.total_traffic = 5 * GB}]
    /\ calls = [s \in PanelServiceIds |-> NoCalls]
    /\ trace = [s \in PanelServiceIds |-> <<>>]
    /\ raised = FALSE
    /\ bulk_writes = <<>>
    /\ skipped_panels = {}
    /\ panel_task = NoPanelTask
    /\ InitAside
    /\ InitDispatcher

SpecPanels == InitPanels /\ [][Next]_vars

\* ------------------------------------------------- the tasks of a panel
\* The per-service tasks of one panel task, in the panel phase of the first
\* cycle, as the event loop runs them: a
\* task runs until it awaits the messenger or the reporting channel, and
\* other tasks of the gather run while it is suspended there.

\* The size of the semaphore of the batch path, scaled to the run: the
\* panel of the run has one service more than the semaphore has slots.
PanelConcurrency == 2

TaskServiceIds == 1 .. PanelConcurrency + 1

InitTasks ==
    /\ clock = 1
    /\ monitoring = FALSE
    /\ pc = "stopped"
    /\ services = [s \in {} |-> 0]
    /\ panels_todo = {}
    /\ todo = {}
    /\ pending_updates = <<>>
    /\ message_queue = <<>>
    /\ db = [s \in TaskServiceIds |->
                [NewService(s, "None", NoTime) EXCEPT !.panel_id = 1]]
    /\ users = TaskServiceIds
    /\ panel \in [TaskServiceIds ->
                     {[present |-> TRUE, enable |-> TRUE, total_traffic |-> 20 * GB,
                       used_traffic |-> u] : u \in {0, 15 * GB}}]
    /\ calls = [s \in TaskServiceIds |-> NoCalls]
    /\ trace = [s \in TaskServiceIds |-> <<>>]
    /\ raised = FALSE
    /\ bulk_writes = <<>>
    /\ skipped_panels = {}
    /\ panel_task = NoPanelTask
    /\ InitAside
    /\ InitDispatcher

\* check_panel_services_parallel up to its gather: login, the batch call,
\* and the creation of the per-service tasks, under the semaphore when the
\* batch call yielded clients and without it when it yielded nothing.
check_panel_services_tasks(panel_id) ==
    /\ pc = "panels"
    /\ panel_id \in panels_todo
    /\ panels_todo' = panels_todo \ {panel_id}
    /\ \E login, batch \in BOOLEAN :
          /\ todo' = IF login
                     THEN todo \cup {s \in DOMAIN services : services[s].panel_id = panel_id}
                     ELSE todo
          /\ skipped_panels' = IF login THEN skipped_panels
                               ELSE skipped_panels \cup {panel_id}
          /\ panel_task' = IF ~login THEN panel_task
                           ELSE IF batch
                                THEN [path |-> "batch", semaphore |-> PanelConcurrency,
                                      running |-> {}]
                                ELSE [path |-> "fallback", semaphore |-> 0,
                                      running |-> {}]
    /\ UNCHANGED <<clock, monitoring, pc, services, pending_updates,
                   message_queue, db, users, panel, calls, trace>>
    /\ UNCHANGED <<raised, bulk_writes, dispatch_vars, aside_vars>>

\* The evaluation awaited the messenger or the reporting channel.
Suspends(w, sid) ==
    \E i \in Len(trace[sid]) + 1 .. Len(w.trace[sid]) :
        w.trace[sid][i].op \in {"enqueue", "send_message"}

\* A per-service task starts: check_service_with_semaphore takes a slot on
\* the batch path, check_service_traffic starts at once on the fallback
\* path.  The event loop starts the tasks of a gather in the order of their
\* creation, the order of the list of services.  The task ends in the same
\* step unless it suspends.
TaskBegin(sid) ==
    /\ pc = "panels"
    /\ sid \in todo
    /\ \A t \in todo : sid <= t
    /\ panel_task.path # "none"
    /\ panel_task.path = "batch" => panel_task.semaphore > 0
    /\ todo' = todo \ {sid}
    /\ \E o \in EvaluationOutcomes :
          LET w == check_service_traffic_optimized(World, services[sid], o)
          IN  /\ Install(w)
              /\ panel_task' =
                    IF Suspends(w, sid)
                    THEN [panel_task EXCEPT
                            !.running = @ \cup {sid},
                            !.semaphore = IF panel_task.path = "batch" THEN @ - 1 ELSE @]
                    ELSE panel_task
    /\ UNCHANGED <<clock, monitoring, pc, services, panels_todo, users>>
    /\ UNCHANGED <<raised, bulk_writes, skipped_panels, dispatch_vars, aside_vars>>

\* A suspended task is resumed and ends; on the batch path its slot is freed.
TaskEnd(sid) ==
    /\ pc = "panels"
    /\ sid \in panel_task.running
    /\ panel_task' = [panel_task EXCEPT
                        !.running = @ \ {sid},
                        !.semaphore = IF panel_task.path = "batch" THEN @ + 1 ELSE @]
    /\ UNCHANGED <<clock, monitoring, pc, services, panels_todo, todo,
                   pending_updates, message_queue, db, users, panel, calls, trace>>
    /\ UNCHANGED <<raised, bulk_writes, skipped_panels, dispatch_vars, aside_vars>>

\* The first cycle up to its flush.
NextTasks ==
    \/ start_monitoring
    \/ check_all_services
    \/ \E p \in Services : check_panel_services_tasks(p)
    \/ \E s \in Services : TaskBegin(s)
    \/ \E s \in Services : TaskEnd(s)
    \/ flush_updates

SpecTasks == InitTasks /\ [][NextTasks]_vars

\* --------------------------------------------- direct sends of the tasks
\* The panel phase for a panel with one service more than the gate of the
\* dispatcher has slots, each disabled for exhaustion at the instant the
\* monitor starts and reported by the panel above 110% of its quota.
SendServiceIds == 1 .. MaxConcurrentSends + 1

InitSends ==
    /\ clock = 1
    /\ monitoring = FALSE
    /\ pc = "stopped"
    /\ services = [s \in {} |-> 0]
    /\ panels_todo = {}
    /\ todo = {}
    /\ pending_updates = <<>>
    /\ message_queue = <<>>
    /\ db = [s \in SendServiceIds |->
                [NewService(s, "None", NoTime) EXCEPT
                    !.panel_id = 1, !.status = "disabled",
                    !.exhausted_at = Instants[1],
                    !.warned_70_percent = TRUE, !.warned_100_percent = TRUE]]
    /\ users = SendServiceIds
    /\ panel = [s \in SendServiceIds |->
                   [present |-> TRUE, enable |-> FALSE, total_traffic |-> 20 * GB,
                    used_traffic |-> 22 * GB]]
    /\ calls = [s \in SendServiceIds |-> NoCalls]
    /\ trace = [s \in SendServiceIds |-> <<>>]
    /\ raised = FALSE
    /\ bulk_writes = <<>>
    /\ skipped_panels = {}
    /\ panel_task = NoPanelTask
    /\ InitAside
    /\ InitDispatcher

SpecSends == InitSends /\ [][NextTasks]_vars

\* The tasks suspended whose evaluation called bot.send_message directly.
DirectSends ==
    {sid \in panel_task.running :
        \E i \in 1 .. Len(trace[sid]) : trace[sid][i].op = "send_message"}

\* ------------------------------------------------- collaborator failures
\* The cycles of a monitor with two volume services on one panel, when a
\* collaborator (panel adapter, store, messenger) may raise while one
\* service is evaluated or deleted.  The run starts when two instants are
\* left, against a store that holds new services and services disabled
\* for exhaustion at the first instant.
FaultOutcomes == RemoteOutcomes \cup {"raised"}

InitFaults ==
    /\ clock = Horizon - 1
    /\ monitoring = FALSE
    /\ pc = "stopped"
    /\ services = [s \in {} |-> 0]
    /\ panels_todo = {}
    /\ todo = {}
    /\ pending_updates = <<>>
    /\ message_queue = <<>>
    /\ db \in [PanelServiceIds ->
                  UNION {{[NewService(s, "None", NoTime) EXCEPT !.panel_id = 1],
                          [NewService(s, "None", NoTime) EXCEPT
                              !.panel_id = 1, !.status = "disabled",
                              !.exhausted_at = Instants[1],
                              !.warned_70_percent = TRUE,
                              !.warned_100_percent = TRUE]} : s \in PanelServiceIds}]
    /\ \A s \in PanelServiceIds : db[s].id = s
    /\ users = PanelServiceIds
    /\ panel = [s \in PanelServiceIds |->
                   [present |-> TRUE, enable |-> db[s].status = "active",
                    total_traffic |-> 5 * GB,
                    used_traffic |-> IF db[s].status = "active" THEN 0 ELSE 5 * GB]]
    /\ calls = [s \in PanelServiceIds |-> NoCalls]
    /\ trace = [s \in PanelServiceIds |-> <<>>]
    /\ raised = FALSE
    /\ bulk_writes = <<>>
    /\ skipped_panels = {}
    /\ panel_task = NoPanelTask
    /\ InitAside
    /\ InitDispatcher

\* One per-service task in which a collaborator raises: the except clause
\* of check_service_traffic_optimized (or of process_client_traffic) logs
\* the error and the task ends.  The exception is taken at the first call
\* of the evaluation, before it has changed anything.
EvaluateServiceRaised(sid) ==
    /\ pc = "panels"
    /\ sid \in todo
    /\ todo' = todo \ {sid}
    /\ Install(Log(World, sid, "raise", "evaluation"))
    /\ UNCHANGED <<clock, monitoring, pc, services, panels_todo, users>>
    /\ UNCHANGED <<raised, bulk_writes, skipped_panels, panel_task, dispatch_vars, aside_vars>>

RECURSIVE DeleteEachFaulty_abort(_, _, _, _)
\* Mutant: the exception of one delete ends the loop of the sweep.
DeleteEachFaulty_abort(w, sids, outcomes, expired_plan) ==
    IF sids = {} THEN w
    ELSE LET sid == CHOOSE x \in sids : \A y \in sids : x <= y
         IN  IF outcomes[sid] = "raised"
             THEN Log(w, sid, "raise", "delete")
             ELSE DeleteEachFaulty_abort(
                      IF expired_plan
                      THEN delete_expired_plan_service(w, w.db[sid], outcomes[sid])
                      ELSE delete_exhausted_service(w, w.db[sid], outcomes[sid]),
                      sids \ {sid}, outcomes, expired_plan)

RECURSIVE DeleteEachFaulty(_, _, _, _)
\* for service in <list>: await self.<delete>(service), when a delete may
\* raise: its except clause logs the error and the loop goes on.  The
\* exception is taken at the first call of the delete.
DeleteEachFaulty(w, sids, outcomes, expired_plan) ==
    IF sids = {} THEN w
    ELSE LET sid == CHOOSE x \in sids : \A y \in sids : x <= y
             w1 == IF outcomes[sid] = "raised"
                   THEN Log(w, sid, "raise", "delete")
                   ELSE IF expired_plan
                        THEN delete_expired_plan_service(w, w.db[sid], outcomes[sid])
                        ELSE delete_exhausted_service(w, w.db[sid], outcomes[sid])
         IN  DeleteEachFaulty(w1, sids \ {sid}, outcomes, expired_plan)

\* A service is deleted by one of the two loops at most (the second list is
\* read after the first loop): one outcome per service covers both.
check_for_deletion_faulty ==
    /\ pc = "deletion"
    /\ \E o \in [Services -> FaultOutcomes] :
          LET w1 == DeleteEachFaulty(World, get_services_for_deletion(World), o, FALSE)
              w2 == DeleteEachFaulty(w1, get_expired_plan_services_for_deletion(w1),
                                     o, TRUE)
          IN  Install(w2)
    /\ pc' = "sleep"
    /\ UNCHANGED <<clock, monitoring, services, panels_todo, todo, users>>
    /\ UNCHANGED <<raised, bulk_writes, skipped_panels, panel_task, dispatch_vars, aside_vars>>

NextFaults ==
    \/ start_monitoring
    \/ check_all_services
    \/ \E p \in Services : check_panel_services_parallel(p)
    \/ \E s \in Services : EvaluateService(s)
    \/ \E s \in Services : EvaluateServiceRaised(s)
    \/ flush_updates
    \/ check_for_deletion_faulty
    \/ sleep
    \/ \E s \in Services : UseTraffic(s)

SpecFaults == InitFaults /\ [][NextFaults]_vars

\* ------------------------------------------- overlapping evaluations
\* How often an evaluation of the cycle staged the usage of the service.
StepsOfStage(tr) == Cardinality({i \in 1 .. Len(tr) : tr[i].op = "stage"})

\* A second task of check_service_traffic_optimized for a service whose task
\* of this cycle has already run: it is handed the same dictionary of the
\* cycle's snapshot, and reads the store and the panel as they are now.
EvaluateStale(sid) ==
    /\ pc = "panels"
    /\ sid \in DOMAIN services
    /\ sid \notin todo
    /\ StepsOfStage(trace[sid]) = 1
    /\ \E o \in EvaluationOutcomes :
          Install(check_service_traffic_optimized(World, services[sid], o))
    /\ UNCHANGED <<clock, monitoring, pc, services, panels_todo, todo, users>>
    /\ UNCHANGED <<raised, bulk_writes, skipped_panels, panel_task, dispatch_vars, aside_vars>>

NextStale ==
    \/ Next
    \/ \E s \in Services : EvaluateStale(s)

\* The plan services that end within the horizon and whose user record is
\* found: the ones all four kinds of flag-guarded notification apply to.
InitStale ==
    /\ Init
    /\ users = ServiceIds
    /\ \A s \in ServiceIds :
          db[s].product_id = "Plan" /\ db[s].expires_at <= Instants[Len(Instants)]

SpecStale == InitStale /\ [][NextStale]_vars

\* ------------------------------------------------ notification dispatcher
\* The dispatcher on its own: the producers of the cycles are reduced to
\* their call of _send_message_safe, the event loop's clock ticks, and the
\* worker drains the queue.

\* self.last_message_time.get(chat_id, 0)
last_time(chat_id) ==
    IF chat_id \in DOMAIN last_message_time THEN last_message_time[chat_id] ELSE 0

\* Mutant: the interval is measured in ticks.
throttle_ticks(time_since_last) ==
    IF time_since_last < min_message_interval
    THEN min_message_interval - time_since_last
    ELSE 0

\* The remainder of the interval the worker sleeps before a send (ticks).
throttle(time_since_last) ==
    IF time_since_last < min_message_interval * TicksPerSecond
    THEN min_message_interval * TicksPerSecond - time_since_last
    ELSE 0

InitDispatch ==
    /\ clock = 1
    /\ monitoring = FALSE
    /\ pc = "stopped"
    /\ services = [s \in {} |-> 0]
    /\ panels_todo = {}
    /\ todo = {}
    /\ pending_updates = <<>>
    /\ message_queue = <<>>
    /\ db = [s \in ServiceIds |-> NewService(s, "None", NoTime)]
    /\ users = ServiceIds
    /\ panel = [s \in ServiceIds |->
                  [present |-> TRUE, enable |-> TRUE, total_traffic |-> 0,
                   used_traffic |-> 0]]
    /\ calls = [s \in ServiceIds |-> NoCalls]
    /\ trace = [s \in ServiceIds |-> <<>>]
    /\ raised = FALSE
    /\ bulk_writes = <<>>
    /\ skipped_panels = {}
    /\ panel_task = NoPanelTask
    /\ InitAside
    /\ InitDispatcher

\* Mutant: stopping cancels the task of the loop where it stands.
stop_monitoring_cancel ==
    /\ monitoring
    /\ monitoring' = FALSE
    /\ pc' = "returned"
    /\ UNCHANGED <<message_queue, trace>>
    /\ UNCHANGED <<monitor_vars, aside_vars>>
    /\ UNCHANGED <<dispatch_vars, aside_vars>>

\* stop_monitoring: the flag is cleared, nothing else.
stop_monitoring ==
    /\ monitoring
    /\ monitoring' = FALSE
    /\ UNCHANGED <<pc, message_queue, trace>>
    /\ UNCHANGED <<monitor_vars, aside_vars>>
    /\ UNCHANGED <<dispatch_vars, aside_vars>>

\* A producer of a running cycle hands a message for chat_id to the queue.
Producer(sid, chat_id, kind) ==
    /\ pc = "loop"
    /\ Len(trace[sid]) < MaxMessages
    /\ Install(_send_message_safe(World, chat_id, kind, sid))
    /\ UNCHANGED <<clock, monitoring, pc, services, panels_todo, todo, users>>
    /\ UNCHANGED <<raised, bulk_writes, skipped_panels, panel_task, dispatch_vars, aside_vars>>

\* Time passes on the event loop's clock.
Tick ==
    /\ loop_time < MaxTime
    /\ loop_time' = loop_time + 1
    /\ UNCHANGED <<monitoring, pc, message_queue, trace, worker,
                   message_semaphore, last_message_time, sends>>
    /\ UNCHANGED <<monitor_vars, aside_vars>>

\* while self.monitoring: the worker enters the next round or ends.
WorkerLoop ==
    /\ worker.pc = "top"
    /\ worker' = [worker EXCEPT !.pc = IF monitoring THEN "get" ELSE "ended"]
    /\ UNCHANGED <<monitoring, pc, message_queue, trace, loop_time,
                   message_semaphore, last_message_time, sends>>
    /\ UNCHANGED <<monitor_vars, aside_vars>>

\* wait_for(self.message_queue.get(), timeout=1.0) times out on an empty queue.
WorkerTimeout ==
    /\ worker.pc = "get"
    /\ message_queue = <<>>
    /\ worker' = [worker EXCEPT !.pc = "top"]
    /\ UNCHANGED <<monitoring, pc, message_queue, trace, loop_time,
                   message_semaphore, last_message_time, sends>>
    /\ UNCHANGED <<monitor_vars, aside_vars>>

\* Mutant: the worker takes the item enqueued last.
WorkerGet_last ==
    /\ worker.pc = "get"
    /\ message_queue # <<>>
    /\ LET item == message_queue[Len(message_queue)]
           time_since_last == loop_time - last_time(item.chat_id)
       IN  worker' = [pc |-> "throttle", item |-> item,
                      wake_at |-> loop_time + throttle(time_since_last)]
    /\ message_queue' = SubSeq(message_queue, 1, Len(message_queue) - 1)
    /\ UNCHANGED <<monitoring, pc, trace, loop_time, message_semaphore,
                   last_message_time, sends>>
    /\ UNCHANGED <<monitor_vars, aside_vars>>

\* The worker takes the head of the queue and computes how long to wait.
WorkerGet ==
    /\ worker.pc = "get"
    /\ message_queue # <<>>
    /\ LET item == Head(message_queue)
           time_since_last == loop_time - last_time(item.chat_id)
       IN  worker' = [pc |-> "throttle", item |-> item,
                      wake_at |-> loop_time + throttle(time_since_last)]
    /\ message_queue' = Tail(message_queue)
    /\ UNCHANGED <<monitoring, pc, trace, loop_time, message_semaphore,
                   last_message_time, sends>>
    /\ UNCHANGED <<monitor_vars, aside_vars>>

\* The sleep, if any, is over: the worker takes the semaphore and starts the send.
WorkerSend ==
    /\ worker.pc = "throttle"
    /\ loop_time >= worker.wake_at
    /\ message_semaphore > 0
    /\ message_semaphore' = message_semaphore - 1
    /\ worker' = [worker EXCEPT !.pc = "sending"]
    /\ sends' = Append(sends, [chat_id |-> worker.item.chat_id,
                               started |-> loop_time, outcome |-> "pending"])
    /\ UNCHANGED <<monitoring, pc, message_queue, trace, loop_time,
                   last_message_time>>
    /\ UNCHANGED <<monitor_vars, aside_vars>>

\* Mutant: a message whose send raised is put back on the queue.
WorkerSent_requeue(outcome) ==
    /\ worker.pc = "sending"
    /\ last_message_time' =
          IF outcome = "ok"
          THEN [c \in DOMAIN last_message_time \cup {worker.item.chat_id} |->
                   IF c = worker.item.chat_id THEN loop_time
                   ELSE last_message_time[c]]
          ELSE last_message_time
    /\ sends' = [sends EXCEPT ![Len(sends)].outcome = outcome]
    /\ message_queue' = IF outcome = "ok" THEN message_queue
                        ELSE Append(message_queue, worker.item)
    /\ message_semaphore' = message_semaphore + 1
    /\ worker' = [pc |-> "top", item |-> NoItem, wake_at |-> 0]
    /\ UNCHANGED <<monitoring, pc, trace, loop_time>>
    /\ UNCHANGED <<monitor_vars, aside_vars>>

\* bot.send_message returns or raises; the semaphore is released.
WorkerSent(outcome) ==
    /\ worker.pc = "sending"
    /\ last_message_time' =
          IF outcome = "ok"
          THEN [c \in DOMAIN last_message_time \cup {worker.item.chat_id} |->
                   IF c = worker.item.chat_id THEN loop_time
                   ELSE last_message_time[c]]
          ELSE last_message_time
    /\ sends' = [sends EXCEPT ![Len(sends)].outcome = outcome]
    /\ message_semaphore' = message_semaphore + 1
    /\ worker' = [pc |-> "top", item |-> NoItem, wake_at |-> 0]
    /\ UNCHANGED <<monitoring, pc, message_queue, trace, loop_time>>
    /\ UNCHANGED <<monitor_vars, aside_vars>>

NextDispatch ==
    \/ start_monitoring
    \/ stop_monitoring
    \/ \E sid \in Services, chat_id \in Recipients : Producer(sid, chat_id, "warn70")
    \/ Tick
    \/ WorkerLoop
    \/ WorkerTimeout
    \/ WorkerGet
    \/ WorkerSend
    \/ \E outcome \in SendOutcomes : WorkerSent(outcome)

SpecDispatch == InitDispatch /\ [][NextDispatch]_vars

\* ------------------------------------------------------ scheduling loop
\* The loop of start_monitoring with its exits: stop_monitoring may be called
\* at any moment, the store may raise in a query of a pass, and the loop
\* ends when it finds the flag cleared.

\* Mutant: the exception of the pass reaches the caller and ends the loop.
check_all_services_raised_exit ==
    /\ pc = "loop"
    /\ monitoring
    /\ raised' = TRUE
    /\ pc' = "returned"
    /\ UNCHANGED <<clock, monitoring, services, panels_todo, todo,
                   pending_updates, message_queue, db, users, panel, calls, trace>>
    /\ UNCHANGED <<bulk_writes, skipped_panels, panel_task, dispatch_vars, aside_vars>>

\* check_all_services when get_all_active_services raises: the except
\* clause of the pass logs the error and the pass returns to the loop,
\* which goes on to the deletion sweep.
check_all_services_raised ==
    /\ pc = "loop"
    /\ monitoring
    /\ raised' = TRUE
    /\ pc' = "deletion"
    /\ UNCHANGED <<clock, monitoring, services, panels_todo, todo,
                   pending_updates, message_queue, db, users, panel, calls, trace>>
    /\ UNCHANGED <<bulk_writes, skipped_panels, panel_task, dispatch_vars, aside_vars>>

\* check_for_deletion when a query of the store raises: the first query
\* (nothing is deleted) or the second (the exhausted services are deleted,
\* the expired plans are not).  The except clause of the sweep logs the
\* error and the sweep returns to the loop, which computes wait_time.
check_for_deletion_raised ==
    /\ pc = "deletion"
    /\ \E first \in BOOLEAN : \E o1 \in [Services -> RemoteOutcomes] :
          Install(IF first THEN World
                  ELSE DeleteEach(World, get_services_for_deletion(World), o1, FALSE))
    /\ raised' = TRUE
    /\ pc' = "sleep"
    /\ UNCHANGED <<clock, monitoring, services, panels_todo, todo, users>>
    /\ UNCHANGED <<bulk_writes, skipped_panels, panel_task, dispatch_vars, aside_vars>>

\* while self.monitoring, found false: start_monitoring returns.
start_monitoring_returns ==
    /\ pc = "loop"
    /\ ~monitoring
    /\ pc' = "returned"
    /\ UNCHANGED <<clock, monitoring, services, panels_todo, todo,
                   pending_updates, message_queue, db, users, panel, calls, trace>>
    /\ UNCHANGED <<raised, bulk_writes, skipped_panels, panel_task, dispatch_vars, aside_vars>>

\* The steps of the task of start_monitoring.
Scheduler ==
    \/ check_all_services
    \/ check_all_services_raised
    \/ \E p \in Services : check_panel_services_parallel(p)
    \/ \E s \in Services : EvaluateService(s)
    \/ flush_updates
    \/ check_for_deletion
    \/ check_for_deletion_raised
    \/ sleep
    \/ start_monitoring_returns

\* The loop is the same for every service: the run starts from the volume
\* services with a quota whose user record is found.
InitSched ==
    /\ Init
    /\ users = ServiceIds
    /\ \A s \in ServiceIds : db[s].product_id = "None" /\ panel[s].total_traffic > 0

NextSched ==
    \/ start_monitoring
    \/ Scheduler
    \/ stop_monitoring
    \/ \E s \in Services : UseTraffic(s)

SpecSched == InitSched /\ [][NextSched]_vars

\* The event loop runs a task that is ready: the task of start_monitoring
\* is not starved.
SpecSchedFair == SpecSched /\ WF_vars(Scheduler)

\* ------------------------------------------------------------ panel dump
\* get_all_clients_from_panel_batch on its own: the dump of a panel is drawn
\* at the start and the function is applied to it.

\* A key the dictionary does not have (or has with None).
Absent == 0 - 1

\* The largest number of clientStats records of an inbound.
MaxStats == 2

\* The uuid of the client of the dump, and the id of some other client.
ClientUuid == 1
OtherUuid == 2

\* An email without '@', and the emails local@domain by their local part
\* and its length (a uuid has 36 characters).
NoEmail == [at |-> FALSE, local |-> 0, len |-> 0]
EmailChoices ==
    {NoEmail, [at |-> TRUE, local |-> ClientUuid, len |-> 36],
     [at |-> TRUE, local |-> ClientUuid, len |-> 8]}

\* A record of clientStats; id and uuid 0 stand for a missing or empty field.
StatChoices ==
    {[id |-> i, uuid |-> u, email |-> e, up |-> t[1], down |-> t[2]] :
        i \in {0, ClientUuid, OtherUuid}, u \in {0, ClientUuid}, e \in EmailChoices,
        t \in {<<0, 0>>, <<3, 4>>}}

\* The traffic fields embedded on a client object.
EmbeddedChoices ==
    {[up |-> Absent, down |-> Absent, upload |-> Absent, download |-> Absent],
     [up |-> 0, down |-> 0, upload |-> Absent, download |-> Absent],
     [up |-> 1, down |-> 2, upload |-> Absent, download |-> Absent],
     [up |-> Absent, down |-> Absent, upload |-> 5, download |-> 6],
     [up |-> 1, down |-> Absent, upload |-> 5, download |-> 6]}

SeqsUpTo(S, n) == UNION {[1 .. k -> S] : k \in 0 .. n}

\* client.get(key, 0) or 0
or_zero(v) == IF v = Absent THEN 0 ELSE v

\* email_uuid: the local part of the email if it is longer than 30 characters.
email_uuid(stat_email) ==
    IF stat_email.at /\ stat_email.len > 30 THEN stat_email.local ELSE 0

\* Mutant: the email-derived uuid is not tried.
stat_matches_no_email(stat_item, client_uuid) ==
    \/ stat_item.id # 0 /\ stat_item.id = client_uuid
    \/ stat_item.uuid # 0 /\ stat_item.uuid = client_uuid

\* stat_id_str == str(client_uuid) or stat_uuid_str == ... or email_uuid == ...
stat_matches(stat_item, client_uuid) ==
    \/ stat_item.id # 0 /\ stat_item.id = client_uuid
    \/ stat_item.uuid # 0 /\ stat_item.uuid = client_uuid
    \/ email_uuid(stat_item.email) # 0 /\ email_uuid(stat_item.email) = client_uuid

\* Priority 1: up + down of the first record that matches, 0 without one.
stat_traffic(client_stats, client_uuid) ==
    LET matching == {i \in 1 .. Len(client_stats) :
                        stat_matches(client_stats[i], client_uuid)}
    IN  IF matching = {} THEN 0
        ELSE LET first == CHOOSE i \in matching : \A j \in matching : i <= j
             IN  or_zero(client_stats[first].up) + or_zero(client_stats[first].down)

\* Priority 2: the fields of the client object.
embedded_traffic(client) ==
    IF client.up # Absent /\ client.down # Absent
    THEN or_zero(client.up) + or_zero(client.down)
    ELSE IF client.upload # Absent /\ client.download # Absent
         THEN or_zero(client.upload) + or_zero(client.download)
         ELSE 0

\* Mutant: the client object is read only when no record matched.
reconciled_traffic_unmatched_only(client_stats, client) ==
    IF \E i \in 1 .. Len(client_stats) : stat_matches(client_stats[i], client.id)
    THEN stat_traffic(client_stats, client.id)
    ELSE embedded_traffic(client)

\* used_traffic of a client: priority 2 is taken if used_traffic == 0.
reconciled_traffic(client_stats, client) ==
    LET used_traffic == stat_traffic(client_stats, client.id)
    IN  IF used_traffic = 0 THEN embedded_traffic(client) ELSE used_traffic

\* The dictionary {client_uuid: client_details} of the dump.
get_all_clients_from_panel_batch(dump) ==
    LET entries == {<<i, k>> \in (1 .. Len(dump)) \X (1 .. 1) :
                       k <= Len(dump[i].clients) /\ dump[i].clients[k].id # 0}
    IN  [uuid \in {dump[e[1]].clients[e[2]].id : e \in entries} |->
            LET e == CHOOSE e \in entries : dump[e[1]].clients[e[2]].id = uuid
                inbound == dump[e[1]]
                client == inbound.clients[e[2]]
            IN  [id |-> uuid,
                 inbound_id |-> inbound.id,
                 total_traffic |-> IF client.totalGB = 0 THEN client.total
                                   ELSE client.totalGB,
                 used_traffic |-> reconciled_traffic(inbound.clientStats, client)]]

\* The dumps: one inbound with one client and up to MaxStats records.
DumpChoices ==
    {<<[id |-> 1,
        clients |-> <<[id |-> ClientUuid, up |-> e.up, down |-> e.down,
                       upload |-> e.upload, download |-> e.download,
                       totalGB |-> 0, total |-> 5 * GB]>>,
        clientStats |-> st]>> :
       e \in EmbeddedChoices, st \in SeqsUpTo(StatChoices, MaxStats)}

\* The state in which no cycle runs and the store is at rest.
InitQuiet ==
    /\ clock = 1
    /\ monitoring = FALSE
    /\ pc = "stopped"
    /\ services = [s \in {} |-> 0]
    /\ panels_todo = {}
    /\ todo = {}
    /\ pending_updates = <<>>
    /\ message_queue = <<>>
    /\ db = [s \in ServiceIds |-> NewService(s, "None", NoTime)]
    /\ users = ServiceIds
    /\ panel = [s \in ServiceIds |->
                  [present |-> TRUE, enable |-> TRUE, total_traffic |-> 0,
                   used_traffic |-> 0]]
    /\ calls = [s \in ServiceIds |-> NoCalls]
    /\ trace = [s \in ServiceIds |-> <<>>]
    /\ raised = FALSE
    /\ bulk_writes = <<>>
    /\ skipped_panels = {}
    /\ panel_task = NoPanelTask
    /\ InitDispatcher

InitBatch ==
    /\ InitQuiet
    /\ inbounds \in DumpChoices
    /\ all_clients = <<>>
    /\ wall = 0
    /\ check_start_time = 0
    /\ cycle_starts = <<>>
    /\ loop_tasks = <<>>
    /\ worker_tasks = <<>>

\* The call of get_all_clients_from_panel_batch on the dump.
BatchCall ==
    /\ all_clients = <<>>
    /\ all_clients' = get_all_clients_from_panel_batch(inbounds)
    /\ UNCHANGED <<monitoring, pc, message_queue, trace, monitor_vars, dispatch_vars,
                   inbounds, wall, check_start_time, cycle_starts, loop_tasks,
                   worker_tasks>>

NextBatch == BatchCall

SpecBatch == InitBatch /\ [][NextBatch]_vars

\* ------------------------------------------------------- loop intervals
\* The loop of start_monitoring with its times: the two passes of an
\* iteration run against a store without services and take the time the
\* store and the panels need to answer; asyncio.sleep returns on time.

\* time.time() is counted in tenths of a second.
TenthsPerSecond == 10

\* The number of iterations of a run.
MaxCycles == 3

\* The time the two passes of an iteration take (tenths of a second).
PassDurations ==
    {0, 90 * TenthsPerSecond, 180 * TenthsPerSecond - 1, 180 * TenthsPerSecond,
     180 * TenthsPerSecond + 1, 250 * TenthsPerSecond}

Max(a, b) == IF a >= b THEN a ELSE b

\* Mutant: the time the passes took is not subtracted.
wait_time_full(check_duration) == 180 * TenthsPerSecond

\* wait_time = max(0, 180 - check_duration)
wait_time(check_duration) == Max(0, 180 * TenthsPerSecond - check_duration)

\* await asyncio.sleep(wait_time) if wait_time > 0 else asyncio.sleep(0.1)
sleep_time(wait) == IF wait > 0 THEN wait ELSE 1

InitInterval ==
    /\ clock = 1
    /\ monitoring = FALSE
    /\ pc = "stopped"
    /\ services = [s \in {} |-> 0]
    /\ panels_todo = {}
    /\ todo = {}
    /\ pending_updates = <<>>
    /\ message_queue = <<>>
    /\ db = [s \in ServiceIds |->
                [NewService(s, "None", NoTime) EXCEPT !.exists = FALSE]]
    /\ users = {}
    /\ panel = [s \in ServiceIds |->
                  [present |-> FALSE, enable |-> TRUE, total_traffic |-> 0,
                   used_traffic |-> 0]]
    /\ calls = [s \in ServiceIds |-> NoCalls]
    /\ trace = [s \in ServiceIds |-> <<>>]
    /\ raised = FALSE
    /\ bulk_writes = <<>>
    /\ skipped_panels = {}
    /\ panel_task = NoPanelTask
    /\ InitDispatcher
    /\ inbounds = <<>>
    /\ all_clients = <<>>
    /\ wall = 0
    /\ check_start_time = 0
    /\ cycle_starts = <<>>
    /\ loop_tasks = <<>>
    /\ worker_tasks = <<>>

\* check_start_time = time.time(); the two passes; they find no service
\* and change nothing, and return after the time their queries took.
TimedPasses(elapsed) ==
    /\ pc = "loop"
    /\ monitoring
    /\ Len(cycle_starts) < MaxCycles
    /\ get_all_active_services(World) = {}
    /\ get_services_for_deletion(World) = {}
    /\ check_start_time' = wall
    /\ cycle_starts' = Append(cycle_starts, [at |-> wall, took |-> elapsed])
    /\ wall' = wall + elapsed
    /\ pc' = "sleep"
    /\ UNCHANGED <<monitoring, message_queue, trace, monitor_vars, dispatch_vars,
                   inbounds, all_clients, loop_tasks, worker_tasks>>

\* check_duration, wait_time and the sleep that ends the iteration.
TimedSleep ==
    /\ pc = "sleep"
    /\ LET check_duration == wall - check_start_time
       IN  wall' = wall + sleep_time(wait_time(check_duration))
    /\ pc' = "loop"
    /\ UNCHANGED <<monitoring, message_queue, trace, monitor_vars, dispatch_vars,
                   inbounds, all_clients, check_start_time, cycle_starts,
                   loop_tasks, worker_tasks>>

NextInterval ==
    \/ start_monitoring
    \/ \E elapsed \in PassDurations : TimedPasses(elapsed)
    \/ TimedSleep

SpecInterval == InitInterval /\ [][NextInterval]_vars

\* ------------------------------------------------------ repeated starts
\* start_monitoring and stop_monitoring called in turn: every call of
\* start_monitoring is a coroutine of its own and creates a worker task of
\* its own; all of them share self.monitoring and self.pending_updates.

\* The number of calls of start_monitoring in a run.
MaxStarts == 2

InitRestart ==
    /\ InitQuiet
    /\ inbounds = <<>>
    /\ all_clients = <<>>
    /\ wall = 0
    /\ check_start_time = 0
    /\ cycle_starts = <<>>
    /\ loop_tasks = <<>>
    /\ worker_tasks = <<>>

restart_unchanged ==
    UNCHANGED <<clock, pc, services, panels_todo, todo, message_queue, db, users,
                panel, calls, trace, raised, skipped_panels, panel_task,
                dispatch_vars, inbounds, all_clients, wall, check_start_time,
                cycle_starts>>

\* A call of start_monitoring on a monitor that is stopped: the flag is
\* set, the worker task is created, and the call enters its loop and the
\* first cycle, which empties the update buffer, without suspending.
StartCall ==
    /\ ~monitoring
    /\ Len(loop_tasks) < MaxStarts
    /\ monitoring' = TRUE
    /\ loop_tasks' = Append(loop_tasks, "cycle")
    /\ worker_tasks' = Append(worker_tasks, "top")
    /\ pending_updates' = <<>>
    /\ UNCHANGED bulk_writes
    /\ restart_unchanged

\* stop_monitoring: the flag is cleared, no task is touched.
StopCall ==
    /\ monitoring
    /\ monitoring' = FALSE
    /\ UNCHANGED <<loop_tasks, worker_tasks, pending_updates, bulk_writes>>
    /\ restart_unchanged

\* while self.monitoring of loop i, and the start of check_all_services,
\* which empties the update buffer.
LoopTest(i) ==
    /\ i \in 1 .. Len(loop_tasks)
    /\ loop_tasks[i] = "top"
    /\ IF monitoring
       THEN /\ loop_tasks' = [loop_tasks EXCEPT ![i] = "cycle"]
            /\ pending_updates' = <<>>
       ELSE /\ loop_tasks' = [loop_tasks EXCEPT ![i] = "returned"]
            /\ UNCHANGED pending_updates
    /\ UNCHANGED <<monitoring, worker_tasks, bulk_writes>>
    /\ restart_unchanged

\* A per-service task of the cycle of loop i stages the usage of a service.
LoopStage(i) ==
    /\ i \in 1 .. Len(loop_tasks)
    /\ loop_tasks[i] = "cycle"
    /\ loop_tasks' = [loop_tasks EXCEPT ![i] = "staged"]
    /\ pending_updates' = Append(pending_updates, [id |-> i, used_gb |-> 0])
    /\ UNCHANGED <<monitoring, worker_tasks, bulk_writes>>
    /\ restart_unchanged

\* flush_updates of the cycle of loop i, the sweep, and the loop's sleep.
LoopFlush(i) ==
    /\ i \in 1 .. Len(loop_tasks)
    /\ loop_tasks[i] = "staged"
    /\ loop_tasks' = [loop_tasks EXCEPT ![i] = "sleeping"]
    /\ bulk_writes' = IF pending_updates # <<>>
                      THEN <<[updates |-> pending_updates, ok |-> TRUE]>>
                      ELSE <<>>
    /\ pending_updates' = <<>>
    /\ UNCHANGED <<monitoring, worker_tasks>>
    /\ restart_unchanged

\* The sleep of loop i returns.
LoopWake(i) ==
    /\ i \in 1 .. Len(loop_tasks)
    /\ loop_tasks[i] = "sleeping"
    /\ loop_tasks' = [loop_tasks EXCEPT ![i] = "top"]
    /\ UNCHANGED <<monitoring, worker_tasks, pending_updates, bulk_writes>>
    /\ restart_unchanged

\* while self.monitoring of worker i, then its wait on the queue.
WorkerTest(i) ==
    /\ i \in 1 .. Len(worker_tasks)
    /\ worker_tasks[i] = "top"
    /\ worker_tasks' = [worker_tasks EXCEPT
                            ![i] = IF monitoring THEN "waiting" ELSE "returned"]
    /\ UNCHANGED <<monitoring, loop_tasks, pending_updates, bulk_writes>>
    /\ restart_unchanged

\* The wait of worker i on the empty queue times out after a second.
WorkerWaitTimeout(i) ==
    /\ i \in 1 .. Len(worker_tasks)
    /\ worker_tasks[i] = "waiting"
    /\ worker_tasks' = [worker_tasks EXCEPT ![i] = "top"]
    /\ UNCHANGED <<monitoring, loop_tasks, pending_updates, bulk_writes>>
    /\ restart_unchanged

NextRestart ==
    \/ StartCall
    \/ StopCall
    \/ \E i \in 1 .. MaxStarts : LoopTest(i)
    \/ \E i \in 1 .. MaxStarts : LoopStage(i)
    \/ \E i \in 1 .. MaxStarts : LoopFlush(i)
    \/ \E i \in 1 .. MaxStarts : LoopWake(i)
    \/ \E i \in 1 .. MaxStarts : WorkerTest(i)
    \/ \E i \in 1 .. MaxStarts : WorkerWaitTimeout(i)

SpecRestart == InitRestart /\ [][NextRestart]_vars

\* =================================================================== claims
\* The step is the per-service task of sid in the current cycle.
Evaluated(sid) == pc = "panels" /\ sid \in todo /\ sid \notin todo'

\* The step is the deletion sweep of the current cycle.
Swept == pc = "deletion" /\ pc' = "sleep"

\* Notifications of a kind enqueued so far for service sid.
Enqueued(sid, kind) ==
    Cardinality({i \in 1 .. Len(message_queue) :
                    message_queue[i].sid = sid /\ message_queue[i].kind = kind})

\* How often the cycle's record of a service holds a step.
Steps(tr, op, arg) ==
    Cardinality({i \in 1 .. Len(tr) : tr[i].op = op /\ tr[i].arg = arg})

StepsOf(tr, op) == Cardinality({i \in 1 .. Len(tr) : tr[i].op = op})

\* The result of the remote call a handler made in the cycle ("none": not run).
RemoteResult(tr, handler) ==
    IF \E i \in 1 .. Len(tr) - 1 : tr[i].op = "enter" /\ tr[i].arg = handler
    THEN tr[1 + CHOOSE i \in 1 .. Len(tr) - 1 :
                   tr[i].op = "enter" /\ tr[i].arg = handler].arg
    ELSE "none"

\* The live figures an evaluation of sid reads.
Total(sid) == panel[sid].total_traffic
Used(sid) == panel[sid].used_traffic
Limited(sid) == panel[sid].present /\ Total(sid) > 0
UsageAtLeast(sid, p) == Used(sid) * 100 >= p * Total(sid)
HasUser(sid) == db[sid].user_id \in users

\* ----------------------------------------------------------------------- C1
\* The state before an evaluation that finds a limited, active service at
\* or above 100% of its quota.
ExhaustionCase(sid) ==
    /\ Limited(sid)
    /\ db[sid].exists
    /\ db[sid].status = "active"
    /\ UsageAtLeast(sid, 100)

NeverTwoExhaustionNotifications ==
    \A sid \in Services : Enqueued(sid, "exhausted") <= 1

FlagKinds ==
    {[flag |-> "warned_70_percent", kind |-> "warn70", set |-> "set_70"],
     [flag |-> "warned_100_percent", kind |-> "exhausted", set |-> "set_100"],
     [flag |-> "warned_one_week", kind |-> "warn3days", set |-> "set_one_week"],
     [flag |-> "warned_expired", kind |-> "expired", set |-> "set_expired"]}

\* C2: each of the four warning flags of a service changes false->true at
\* most once, and an evaluation of a service whose flag is already true
\* enqueues no notification of that flag's kind.
C2_FlagsSetOnceNoDuplicate ==
    /\ [](\A sid \in Services : \A f \in FlagKinds : calls[sid][f.set] <= 1)
    /\ [][\A sid \in Services : \A f \in FlagKinds :
            (Evaluated(sid) /\ db[sid][f.flag]) =>
                Enqueued(sid, f.kind)' = Enqueued(sid, f.kind)]_vars

\* A service evaluated again in the 3-days window with its flag already set.
C2_Witness ==
    \E sid \in Services :
        /\ db[sid].warned_one_week
        /\ db[sid].expires_at # NoTime
        /\ days(db[sid].expires_at - now) \in 1 .. 3
        /\ Steps(trace[sid], "stage", "used_gb") = 1
        /\ Steps(trace[sid], "set_flag", "warned_one_week") = 0
        /\ Enqueued(sid, "warn3days") = 1

\* ----------------------------------------------------------------------- C3
NeverResetFlag ==
    [][\A sid \in Services : \A f \in FlagKinds :
            db[sid][f.flag] => db'[sid][f.flag]]_vars

\* C3 as stated: a warning flag is never written back to false, and a flag
\* is true only if exactly one notification of its kind has been enqueued.
C3_AsStated ==
    /\ NeverResetFlag
    /\ [](\A sid \in Services : \A f \in FlagKinds :
            db[sid][f.flag] => Enqueued(sid, f.kind) = 1)

\* C3 (amended): a warning flag is never written back to false; a flag is
\* true only if exactly one notification of its kind has been enqueued, or,
\* for warned_70_percent and warned_one_week, none because the service's
\* user record was not found.
C3_FlagGatesOneSend ==
    /\ NeverResetFlag
    /\ [](\A sid \in Services : \A f \in FlagKinds :
            db[sid][f.flag] =>
                IF f.flag \in {"warned_70_percent", "warned_one_week"} /\ ~HasUser(sid)
                THEN Enqueued(sid, f.kind) = 0
                ELSE Enqueued(sid, f.kind) = 1)

\* A service holding two set flags, one notification enqueued for each.
C3_Witness ==
    \E sid \in Services :
        /\ db[sid].warned_70_percent /\ Enqueued(sid, "warn70") = 1
        /\ db[sid].warned_one_week /\ Enqueued(sid, "warn3days") = 1

\* ----------------------------------------------------------------------- C4
\* Steps of the traffic path beyond the staging of the usage counter.
TrafficPathSteps(tr) ==
    StepsOf(tr, "delete_service") + StepsOf(tr, "delete_client")
      + Steps(tr, "enter", "handle_traffic_exhausted")
      + Steps(tr, "enter", "delete_service_for_overage")
      + Steps(tr, "enqueue", "warn70") + Steps(tr, "enqueue", "exhausted")
      + Steps(tr, "set_flag", "warned_70_percent")
      + Steps(tr, "set_flag", "warned_100_percent")
      + StepsOf(tr, "update_service_exhaustion_time")

\* C4: a service whose resolved quota is <= 0 is never disabled, warned
\* (70%/100%) or deleted by the traffic path, whatever its usage: an
\* evaluation only stages its usage counter (and, for a plan service, runs
\* the expiry check).
C4_UnlimitedUntouched ==
    /\ [][\A sid \in Services :
            (Evaluated(sid) /\ panel[sid].present /\ Total(sid) <= 0) =>
                /\ Steps(trace'[sid], "stage", "used_gb") = 1
                /\ TrafficPathSteps(trace'[sid]) = 0
                /\ db'[sid].exists
                /\ db[sid].product_id = "None" => db'[sid] = db[sid]]_vars
    /\ [](\A sid \in Services :
            (panel[sid].present /\ Total(sid) <= 0) =>
                /\ calls[sid].overage_delete = 0
                /\ db[sid].exhausted_at = NoTime
                /\ ~db[sid].warned_70_percent /\ ~db[sid].warned_100_percent
                /\ Enqueued(sid, "warn70") = 0 /\ Enqueued(sid, "exhausted") = 0
                /\ db[sid].product_id = "None" => db[sid].status = "active")

\* An unlimited service with traffic used, evaluated and left active.
C4_Witness ==
    \E sid \in Services :
        /\ panel[sid].present /\ Total(sid) <= 0 /\ Used(sid) > 0
        /\ Steps(trace[sid], "stage", "used_gb") = 1
        /\ db[sid].status = "active"

\* ----------------------------------------------------------------------- C5
Age(anchor) == now - anchor

\* The service is disabled and in its grace period: anchored by exhausted_at,
\* or, a plan service, by expired_at, the anchor younger than 24 hours.
InGracePeriod(sid) ==
    /\ db[sid].exists
    /\ db[sid].status = "disabled"
    /\ \/ db[sid].exhausted_at # NoTime /\ Age(db[sid].exhausted_at) < 24 * 60
       \/ /\ db[sid].product_id # "None"
          /\ db[sid].expired_at # NoTime /\ Age(db[sid].expired_at) < 24 * 60

\* used >= 1.10 * total, or the overage (of the 4-decimal GB figures) >= 1 GB.
OverLimits(sid) ==
    \/ UsageAtLeast(sid, 110)
    \/ to_gb(Used(sid)) - to_gb(Total(sid)) >= 10000

\* C5 as stated: a disabled service in its grace period that is over the
\* limits is deleted, remote client and store record, in the evaluation that
\* observes it.
C5_AsStated ==
    [][\A sid \in Services :
          (Evaluated(sid) /\ Limited(sid) /\ InGracePeriod(sid) /\ OverLimits(sid)) =>
              /\ ~db'[sid].exists
              /\ ~panel'[sid].present]_vars

\* C5 (amended): a disabled service in its grace period that is over the
\* limits loses its store record in the evaluation that observes it, without
\* waiting for the sweep; the remote client is deleted with it exactly when
\* the panel is reachable and its delete_client succeeds.
C5_OverageDeletesAtOnce ==
    [][\A sid \in Services :
          (Evaluated(sid) /\ Limited(sid) /\ InGracePeriod(sid) /\ OverLimits(sid)) =>
              /\ ~db'[sid].exists
              /\ ~db'[sid].is_active
              /\ Steps(trace'[sid], "enter", "delete_service_for_overage") >= 1
              /\ ~panel'[sid].present <=> Steps(trace'[sid], "delete_client", "ok") >= 1]_vars

\* A service deleted by an evaluation for overage, the remote client with it.
C5_Witness ==
    \E sid \in Services :
        /\ Steps(trace[sid], "enter", "delete_service_for_overage") = 1
        /\ StepsOf(trace[sid], "enter") = 1
        /\ ~db[sid].exists
        /\ ~panel[sid].present

\* ----------------------------------------------------------------------- C6
\* Every grace anchor the service has is 24 hours old or older, resp. younger.
AnchorsAtLeast24h(sid) ==
    /\ db[sid].exhausted_at # NoTime \/ db[sid].expired_at # NoTime
    /\ db[sid].exhausted_at # NoTime => Age(db[sid].exhausted_at) >= 24 * 60
    /\ db[sid].expired_at # NoTime => Age(db[sid].expired_at) >= 24 * 60

AnchorsBelow24h(sid) ==
    /\ db[sid].exhausted_at # NoTime => Age(db[sid].exhausted_at) < 24 * 60
    /\ db[sid].expired_at # NoTime => Age(db[sid].expired_at) < 24 * 60

\* C6 as stated: the overage rule applies only while now - anchor < 24h: with
\* the anchor exactly 24h old or older an evaluation deletes nothing and
\* leaves the service to the sweep; below 24h the sweep does not take it.
C6_AsStated ==
    /\ [][\A sid \in Services :
            (Evaluated(sid) /\ db[sid].exists /\ db[sid].status = "disabled"
               /\ AnchorsAtLeast24h(sid)) =>
                /\ Steps(trace'[sid], "enter", "delete_service_for_overage") = 0
                /\ db'[sid].exists]_vars
    /\ [][\A sid \in Services :
            (Swept /\ db[sid].exists /\ AnchorsBelow24h(sid)) => db'[sid].exists]_vars

\* ----------------------------------------------------------------------- C7
PastGrace ==
    get_services_for_deletion(World) \cup get_expired_plan_services_for_deletion(World)

\* The attempts at the remote delete the cycle made for a service.
RemoteDeleteAttempts(tr) ==
    StepsOf(tr, "delete_client") + Steps(tr, "connect", "unreachable")

\* C7 as stated: every service the two past-grace queries return is deleted
\* in that cycle's sweep: the remote delete is attempted, the store record
\* removed, and exactly one final notification sent to the service's user.
C7_AsStated ==
    [][Swept => \A sid \in PastGrace :
          /\ RemoteDeleteAttempts(trace'[sid]) = RemoteDeleteAttempts(trace[sid]) + 1
          /\ ~db'[sid].exists
          /\ calls'[sid].delete_service = calls[sid].delete_service + 1
          /\ calls'[sid].send_message = calls[sid].send_message + 1]_vars

\* C7 (amended): every service the two past-grace queries return is deleted
\* in that cycle's sweep: the remote delete is attempted, the store record
\* removed, and exactly one final notification sent to the service's user if
\* the user record is found, none if it is not.
C7_SweepDeletesPastGrace ==
    [][Swept => \A sid \in PastGrace :
          /\ RemoteDeleteAttempts(trace'[sid]) = RemoteDeleteAttempts(trace[sid]) + 1
          /\ ~db'[sid].exists
          /\ calls'[sid].delete_service = calls[sid].delete_service + 1
          /\ calls'[sid].send_message =
                calls[sid].send_message + IF HasUser(sid) THEN 1 ELSE 0]_vars

\* A service the sweep deleted and whose user got the final notification.
C7_Witness ==
    \E sid \in Services :
        /\ \/ Steps(trace[sid], "enter", "delete_exhausted_service") = 1
           \/ Steps(trace[sid], "enter", "delete_expired_plan_service") = 1
        /\ pc = "sleep"
        /\ ~db[sid].exists
        /\ calls[sid].send_message = 1

\* ----------------------------------------------------------------------- C8
\* The state before an evaluation that owes the 70% warning.
WarningCase(sid) ==
    /\ Limited(sid)
    /\ db[sid].exists
    /\ db[sid].status = "active"
    /\ ~db[sid].warned_70_percent
    /\ UsageAtLeast(sid, 70)
    /\ ~UsageAtLeast(sid, 100)

\* The evaluation leaves the lifecycle fields alone and disables nothing.
LifecycleUntouched(sid) ==
    /\ db'[sid].status = db[sid].status
    /\ db'[sid].is_active = db[sid].is_active
    /\ db'[sid].exhausted_at = db[sid].exhausted_at
    /\ db'[sid].expired_at = db[sid].expired_at
    /\ StepsOf(trace'[sid], "disable_client") = 0

\* The expiry check of the evaluation finds the plan expired.
ExpiryDue(sid) ==
    /\ db[sid].product_id # "None"
    /\ db[sid].expires_at # NoTime
    /\ db[sid].expires_at <= now

\* C8 as stated: with 70 <= pct < 100, status active and the flag false, one
\* evaluation enqueues exactly one 70% warning, sets the flag and leaves
\* status, is_active and both anchors unchanged, with no disable_client call.
C8_AsStated ==
    [][\A sid \in Services :
          (Evaluated(sid) /\ WarningCase(sid)) =>
              /\ Enqueued(sid, "warn70")' = Enqueued(sid, "warn70") + 1
              /\ db'[sid].warned_70_percent
              /\ LifecycleUntouched(sid)]_vars

\* C8 (amended): with 70 <= pct < 100, status active and the flag false, one
\* evaluation sets the flag and enqueues exactly one 70% warning if the
\* user record is found (none if it is not); unless the service is a plan
\* service whose expires_at has passed, it leaves status, is_active and both
\* anchors unchanged and makes no disable_client call.
C8_WarningAt70 ==
    [][\A sid \in Services :
          (Evaluated(sid) /\ WarningCase(sid)) =>
              /\ Enqueued(sid, "warn70")' =
                    Enqueued(sid, "warn70") + IF HasUser(sid) THEN 1 ELSE 0
              /\ db'[sid].warned_70_percent
              /\ ~ExpiryDue(sid) => LifecycleUntouched(sid)]_vars

\* A service warned at 70% in this cycle and still active.
C8_Witness ==
    \E sid \in Services :
        /\ Steps(trace[sid], "enqueue", "warn70") = 1
        /\ Steps(trace[sid], "set_flag", "warned_70_percent") = 1
        /\ db[sid].warned_70_percent
        /\ db[sid].status = "active"
        /\ Enqueued(sid, "warn70") = 1

\* ----------------------------------------------------------------------- C9
\* C9 as stated (for a service whose user record is found): in the
\* evaluation that takes an active service at or above 100% through the
\* exhaustion transition, disable_client is invoked exactly once, and
\* afterwards status = disabled, exhausted_at is set, warned_100_percent is
\* true and is_active is still true.
C9_AsStated ==
    [][\A sid \in Services :
          (Evaluated(sid) /\ ExhaustionCase(sid) /\ HasUser(sid)
             /\ RemoteResult(trace'[sid], "handle_traffic_exhausted") = "ok") =>
              /\ StepsOf(trace'[sid], "disable_client") = 1
              /\ db'[sid].status = "disabled"
              /\ db'[sid].exhausted_at # NoTime
              /\ db'[sid].warned_100_percent
              /\ db'[sid].is_active]_vars

\* ---------------------------------------------------------------------- C10
\* Two attempts to the same recipient with no attempt to it in between.
Consecutive(i, j) ==
    /\ i < j
    /\ sends[i].chat_id = sends[j].chat_id
    /\ \A k \in i + 1 .. j - 1 : sends[k].chat_id # sends[i].chat_id

\* C10 as stated: of two consecutive send attempts to the same recipient the
\* second starts at least the minimum interval after the first, whatever the
\* outcome of the first.
C10_AsStated ==
    \A i, j \in 1 .. Len(sends) :
        Consecutive(i, j) =>
            sends[j].started - sends[i].started >= min_message_interval * TicksPerSecond

\* After an attempt that succeeded, the next attempt to the same recipient
\* starts at least the minimum interval after the first one ended.
C10_AfterSuccess ==
    \A i, j \in 1 .. Len(sends) :
        (Consecutive(i, j) /\ sends[i].outcome = "ok") =>
            sends[j].started - sends[i].started >= min_message_interval * TicksPerSecond

\* ---------------------------------------------------------------------- C11
\* The recipients of the messages handed to the dispatcher so far, in the
\* order the dispatcher deals with them: the attempts made, the item the
\* worker holds while it waits for the interval, the items still queued.
Pipeline ==
    [i \in 1 .. Len(sends) |-> sends[i].chat_id]
      \o (IF worker.pc = "throttle" THEN <<worker.item.chat_id>> ELSE <<>>)
      \o [i \in 1 .. Len(message_queue) |-> message_queue[i].chat_id]

IsPrefix(s, t) == Len(s) <= Len(t) /\ SubSeq(t, 1, Len(s)) = s

\* C11: the dispatcher attempts the queued messages in exactly their enqueue
\* order: a step only ever appends a newly enqueued message to the pipeline
\* and never reorders it, also while the worker waits for the interval of
\* the recipient of the item it holds.
C11_GlobalFifo ==
    [][/\ IsPrefix(Pipeline, Pipeline')
       /\ Len(Pipeline') <= Len(Pipeline) + 1
       /\ Len(sends') > Len(sends) =>
             /\ worker.pc = "throttle"
             /\ sends'[Len(sends')].chat_id = worker.item.chat_id
             /\ SubSeq(sends', 1, Len(sends)) = sends]_vars

\* The worker waits for the interval of one recipient while a later message
\* for another recipient is queued behind it.
C11_Witness ==
    /\ worker.pc = "throttle"
    /\ loop_time < worker.wake_at
    /\ Len(sends) >= 1
    /\ message_queue # <<>>
    /\ Head(message_queue).chat_id # worker.item.chat_id

C13_AsStated ==
    \A sid \in Services : db[sid].exists <=> panel[sid].present

\* C13 (amended): the store record never exists while the remote client is
\* gone; a delete operation always removes the store record, and the remote
\* client with it exactly when delete_client succeeded, so that after a
\* failed remote delete the remote client exists without the store record.
C13_StoreGoesFirst ==
    /\ [](\A sid \in Services : ~panel[sid].present => ~db[sid].exists)
    /\ [][\A sid \in Services :
            (db[sid].exists /\ ~db'[sid].exists) =>
                /\ Evaluated(sid) \/ Swept
                /\ panel'[sid].present <=>
                      Steps(trace'[sid], "delete_client", "ok") = 0]_vars

\* A delete whose delete_client failed: the remote client outlives the record.
C13_Witness ==
    \E sid \in Services :
        /\ ~db[sid].exists
        /\ panel[sid].present
        /\ Steps(trace[sid], "delete_client", "failed") = 1
        /\ StepsOf(trace[sid], "delete_service") = 1

\* ---------------------------------------------------------------------- C14
\* The delete operations the cycle started for a service.
DeletesStarted(tr) ==
    Steps(tr, "enter", "delete_service_for_overage")
      + Steps(tr, "enter", "delete_exhausted_service")
      + Steps(tr, "enter", "delete_expired_plan_service")

\* The delete operations of the cycle whose remote delete did not succeed.
RemoteDeletesNotDone(tr) ==
    Steps(tr, "connect", "unreachable") + Steps(tr, "delete_client", "failed")

\* C14: whenever a delete (overage or sweep) is started for a service, the
\* store record is removed by that same operation, whether the panel cannot
\* be reached (no manager, login fails) or delete_client fails or succeeds.
C14_LocalDeleteRegardless ==
    [][\A sid \in Services :
          DeletesStarted(trace'[sid]) > DeletesStarted(trace[sid]) =>
              /\ ~db'[sid].exists
              /\ ~db'[sid].is_active
              /\ StepsOf(trace'[sid], "delete_service") - StepsOf(trace[sid], "delete_service")
                    = DeletesStarted(trace'[sid]) - DeletesStarted(trace[sid])]_vars

\* A sweep delete with the panel out of reach: the record is gone all the same.
C14_Witness ==
    \E sid \in Services :
        /\ DeletesStarted(trace[sid]) = 1
        /\ Steps(trace[sid], "enter", "delete_expired_plan_service") = 1
        /\ RemoteDeletesNotDone(trace[sid]) = 1
        /\ Steps(trace[sid], "connect", "unreachable") = 1
        /\ ~db[sid].exists
        /\ panel[sid].present

\* ---------------------------------------------------------------------- C15
\* Every write of status = disabled in the cycle's record directly follows
\* a disable_client that returned success, and the anchor follows the status.
DisableOrdered(tr) ==
    \A i \in 1 .. Len(tr) :
        /\ tr[i].op = "update_service_status" =>
              /\ i > 1 /\ tr[i - 1].op = "disable_client" /\ tr[i - 1].arg = "ok"
              /\ i < Len(tr)
              /\ tr[i + 1].op \in {"update_service_exhaustion_time",
                                   "update_service_expiration_time"}
        /\ tr[i].op \in {"update_service_exhaustion_time",
                         "update_service_expiration_time"} =>
              i > 1 /\ tr[i - 1].op = "update_service_status"

\* No disable attempt of the evaluation succeeded, and one at least was made.
DisableFailed(tr) ==
    /\ Steps(tr, "disable_client", "ok") = 0
    /\ \/ RemoteResult(tr, "handle_traffic_exhausted") \in {"unreachable", "failed"}
       \/ RemoteResult(tr, "handle_plan_expiration") \in {"unreachable", "failed"}

DeleteOps ==
    {"delete_service_for_overage", "delete_exhausted_service",
     "delete_expired_plan_service"}

\* The step at place i of the record, if there is one.
StepAt(tr, i) == IF i \in 1 .. Len(tr) THEN tr[i].op ELSE "none"

\* Every delete of the record attempts the remote delete, then deletes the
\* store record, then notifies the user; no notification without the store
\* delete directly before it.
OrderedToNotification(tr, hasUser) ==
    /\ \A i \in 1 .. Len(tr) :
          (tr[i].op = "enter" /\ tr[i].arg \in DeleteOps) =>
              /\ StepAt(tr, i + 1) \in {"delete_client", "connect"}
              /\ StepAt(tr, i + 2) = "delete_service"
              /\ hasUser => StepAt(tr, i + 3) = "send_message"
    /\ \A i \in 1 .. Len(tr) :
          tr[i].op = "send_message" => StepAt(tr, i - 1) = "delete_service"

\* ... and then reports to the reporting channel.
OrderedToReport(tr, hasUser) ==
    /\ OrderedToNotification(tr, hasUser)
    /\ \A i \in 1 .. Len(tr) :
          /\ tr[i].op = "send_message" => StepAt(tr, i + 1) = "report"
          /\ tr[i].op = "report" => StepAt(tr, i - 1) = "send_message"

\* C16 as stated (for a service whose user record is found): every delete
\* path runs remote delete_client attempt, store delete, user notification,
\* report to the reporting channel, in this order, and a deletion
\* notification is never sent for a service whose store record still exists.
C16_AsStated ==
    /\ [][\A sid \in Services :
            (HasUser(sid) /\ DeletesStarted(trace'[sid]) > DeletesStarted(trace[sid])) =>
                OrderedToReport(trace'[sid], TRUE)]_vars
    /\ [](\A sid \in Services : calls[sid].send_message >= 1 => ~db[sid].exists)

\* The order up to the notification is kept by every delete path; the
\* report follows the notification in the overage and the exhausted path.
C16_OrderToNotification ==
    /\ [][\A sid \in Services :
            DeletesStarted(trace'[sid]) > DeletesStarted(trace[sid]) =>
                /\ OrderedToNotification(trace'[sid], HasUser(sid))
                /\ Steps(trace'[sid], "enter", "delete_expired_plan_service") = 0 =>
                      OrderedToReport(trace'[sid], HasUser(sid))]_vars
    /\ [](\A sid \in Services : calls[sid].send_message >= 1 => ~db[sid].exists)

\* ---------------------------------------------------------------------- C17
\* The kinds of notification guarded by a once-only flag.
GuardedKinds == {"warn70", "exhausted", "warn3days", "expired"}

\* C17 as stated: when a service is evaluated twice in a cycle from the same
\* snapshot, the cycle enqueues at most one notification of each
\* flag-guarded kind (70%, exhaustion, 3-day, expired) for it.
C17_AsStated ==
    \A sid \in Services : \A kind \in GuardedKinds :
        Steps(trace[sid], "enqueue", kind) <= 1

\* The three producers that read their flag from the store before they
\* enqueue: two evaluations from one snapshot enqueue at most one 70%,
\* one exhaustion and one expired notification.
C17_FreshReadKinds ==
    \A sid \in Services : \A kind \in GuardedKinds \ {"warn3days"} :
        Steps(trace[sid], "enqueue", kind) <= 1

\* Two evaluations of one snapshot have run and one of the fresh-read kinds
\* was enqueued once.
C17_FreshReadWitness ==
    \E sid \in Services :
        /\ StepsOfStage(trace[sid]) = 2
        /\ Steps(trace[sid], "enqueue", "warn70") = 1

\* ---------------------------------------------------------------------- C18
\* C18: the loop of start_monitoring ends only when the flag is cleared,
\* and while the flag stays set every iteration that reaches its wait,
\* whether its passes completed or raised, is followed by the start of
\* another pass (as long as the run has time left).
C18_LoopRunsUntilStopped ==
    /\ [][(pc # "returned" /\ pc' = "returned") => ~monitoring]_vars
    /\ ((pc = "sleep" /\ clock < Horizon)
            ~> (~monitoring \/ pc \in {"panels", "deletion"}))
    /\ ((pc = "sleep" /\ raised /\ clock < Horizon)
            ~> (~monitoring \/ pc \in {"panels", "deletion"}))

\* After an iteration, with the flag still set, a further pass has started
\* and its query of the store raised.
C18_Witness ==
    /\ monitoring
    /\ clock > 1
    /\ pc = "deletion"
    /\ raised

\* ---------------------------------------------------------------------- C19
\* C19 as stated: an iteration in which a pass raised does not reach the
\* wait of the normal interval (it takes the 60 s backoff instead).
C19_AsStated == raised => pc # "sleep"

\* ---------------------------------------------------------------------- C20
\* C20: start_monitoring returns only from the top of the loop; a cycle,
\* once started, leaves the panel tasks only with every task run and the
\* buffer flushed, and leaves the deletion sweep only for the wait; with
\* the flag cleared no pass starts; and once the flag is cleared
\* start_monitoring eventually returns (as long as the run has time left).
C20_CooperativeStop ==
    /\ [][(pc # "returned" /\ pc' = "returned") => pc = "loop"]_vars
    /\ [][(pc = "panels" /\ pc' # "panels") =>
              /\ panels_todo = {} /\ todo = {}
              /\ pending_updates' = <<>>
              /\ pc' = "deletion"]_vars
    /\ [][(pc = "deletion" /\ pc' # "deletion") => pc' = "sleep"]_vars
    /\ [][~monitoring => ~(pc = "loop" /\ pc' \in {"panels", "deletion"})]_vars
    /\ ((~monitoring /\ pc \in {"loop", "panels", "deletion", "sleep"}
            /\ clock < Horizon) ~> pc = "returned")

\* stop_monitoring was called while a cycle was in flight: the flag is
\* cleared and per-service tasks of the cycle are still to run.
C20_Witness ==
    /\ ~monitoring
    /\ pc = "panels"
    /\ todo # {}

\* ---------------------------------------------------------------------- C21
\* The entries of the buffer for a service.
StagedFor(updates, sid) ==
    Cardinality({i \in 1 .. Len(updates) : updates[i].id = sid})

\* The step ends the panel tasks of a cycle (the flush).
Flushed == pc = "panels" /\ pc' = "deletion"

\* C21: a cycle makes at most one bulk write; the write is made by the step
\* that ends the panel tasks, when no panel task and no per-service task is
\* left, exactly when the buffer is not empty, and with the whole buffer;
\* the buffer holds one entry for every usage staged in the cycle, and it
\* is empty after the flush.
C21_OneFlushPerCycle ==
    /\ [](Len(bulk_writes) <= 1)
    /\ [][bulk_writes' # bulk_writes /\ bulk_writes' # <<>> => Flushed]_vars
    /\ [][Flushed =>
              /\ panels_todo = {} /\ todo = {}
              /\ pending_updates' = <<>>
              /\ IF pending_updates # <<>>
                 THEN /\ Len(bulk_writes') = 1
                      /\ bulk_writes'[1].updates = pending_updates
                 ELSE bulk_writes' = <<>>]_vars
    /\ [](pc = "panels" =>
              \A sid \in Services :
                  StagedFor(pending_updates, sid) = StepsOfStage(trace[sid]))
    /\ [](pc # "panels" => pending_updates = <<>>)

\* A cycle staged the usage of a service and flushed it with one write.
C21_Witness ==
    /\ pc = "deletion"
    /\ Len(bulk_writes) = 1
    /\ \E sid \in Services : StepsOfStage(trace[sid]) = 1

\* ---------------------------------------------------------------------- C22
\* The bulk write of the current cycle raised.
FlushFailed == bulk_writes # <<>> /\ ~bulk_writes[Len(bulk_writes)].ok

\* C22: a flush whose bulk write raises leaves the store as it was, empties
\* the buffer and hands over to the deletion sweep, which can run; and
\* every bulk write holds, for each service, exactly the entries staged in
\* its own cycle, so that entries of a failed write are not written later.
C22_FlushFailureContained ==
    /\ [][(Flushed /\ FlushFailed') =>
              /\ db' = db
              /\ pending_updates' = <<>>
              /\ pc' = "deletion"]_vars
    /\ []((pc = "deletion" /\ FlushFailed) => ENABLED check_for_deletion)
    /\ [](\A i \in 1 .. Len(bulk_writes) : \A sid \in Services :
              StagedFor(bulk_writes[i].updates, sid) = StepsOfStage(trace[sid]))

\* The bulk write of a cycle raised and the deletion sweep of that cycle
\* has run.
C22_Witness ==
    /\ pc = "sleep"
    /\ FlushFailed

\* ---------------------------------------------------------------------- C23
\* The services of the cycle's snapshot on a panel whose task returned at
\* login.
SkippedServices ==
    {sid \in DOMAIN services : services[sid].panel_id \in skipped_panels}

\* C23: during the panel tasks of a cycle, a service of a panel whose login
\* returned false or raised has no per-service task, nothing staged, its
\* store record as the cycle found it, and no step (remote call or
\* notification) in the cycle's record; and when the panel tasks end, every
\* service of another panel that the panel still has was evaluated.
C23_LoginFailureSkipsPanel ==
    /\ [](pc = "panels" =>
              \A sid \in SkippedServices :
                  /\ sid \notin todo
                  /\ StagedFor(pending_updates, sid) = 0
                  /\ db[sid] = services[sid]
                  /\ trace[sid] = <<>>)
    /\ [][Flushed =>
              \A sid \in DOMAIN services \ SkippedServices :
                  panel[sid].present => StepsOfStage(trace'[sid]) = 1]_vars

\* The login of one panel failed and the service of the other panel was
\* evaluated in the same cycle.
C23_Witness ==
    /\ pc = "panels"
    /\ \E s1 \in SkippedServices : \E s2 \in DOMAIN services \ SkippedServices :
          StepsOfStage(trace[s2]) = 1

\* ---------------------------------------------------------------------- C24
\* C24 as stated: on the batch path and on the fallback path alike, the
\* per-service tasks of a panel in progress at one time never outnumber
\* the slots of the semaphore.
C24_AsStated == Cardinality(panel_task.running) <= PanelConcurrency

\* On the batch path the tasks in progress never outnumber the slots.
C24_BatchPathBounded ==
    panel_task.path = "batch" =>
        /\ Cardinality(panel_task.running) <= PanelConcurrency
        /\ panel_task.semaphore = PanelConcurrency - Cardinality(panel_task.running)

\* On the batch path every slot is taken and a task is still waiting.
C24_BatchWitness ==
    /\ panel_task.path = "batch"
    /\ panel_task.semaphore = 0
    /\ todo # {}

\* ---------------------------------------------------------------------- C25
\* C25 as stated: the send calls of the monitor in flight at one time,
\* the direct sends of the delete paths included, never outnumber the slots
\* of the dispatcher's gate.
C25_AsStated == Cardinality(DirectSends) <= MaxConcurrentSends

\* ---------------------------------------------------------------------- C26
\* The step is the end of a send that raised.
SendFailed ==
    /\ worker.pc = "sending"
    /\ worker'.pc # "sending"
    /\ sends'[Len(sends')].outcome = "error"

\* The messages enqueued so far.
EnqueuedSoFar ==
    LET Sum[S \in SUBSET Services] ==
            IF S = {} THEN 0
            ELSE LET x == CHOOSE y \in S : TRUE
                 IN  StepsOf(trace[x], "enqueue") + Sum[S \ {x}]
    IN  Sum[Services]

\* C26: a send that raises leaves the queue as it is and adds no attempt,
\* the worker frees the semaphore and is back at the top of its loop; the
\* attempts made, the message in hand and the queue together always hold
\* each enqueued message once; and the worker ends only with the flag
\* cleared.
C26_FailureSwallowed ==
    /\ [][SendFailed =>
              /\ message_queue' = message_queue
              /\ Len(sends') = Len(sends)
              /\ worker' = [pc |-> "top", item |-> NoItem, wake_at |-> 0]
              /\ message_semaphore' = MaxConcurrentSends]_vars
    /\ [](Len(Pipeline) = EnqueuedSoFar)
    /\ [][(worker.pc # "ended" /\ worker'.pc = "ended") => ~monitoring]_vars

\* A send raised and the message queued behind it was attempted after it.
C26_Witness ==
    \E i \in 1 .. Len(sends) - 1 :
        /\ sends[i].outcome = "error"
        /\ sends[i + 1].outcome # "pending"

\* ---------------------------------------------------------------------- C27
\* C27 as stated: an evaluation that enqueues a 70% warning for a service
\* leaves the service with a persisted status other than disabled (the
\* warning is the last thing an evaluation below 100% does, so the status
\* it leaves is the status at the moment of the enqueue).
C27_AsStated ==
    [][\A sid \in Services :
          (Evaluated(sid) /\ Enqueued(sid, "warn70")' > Enqueued(sid, "warn70")) =>
              db'[sid].status # "disabled"]_vars

\* A 70% warning is enqueued only for a service whose status in the
\* cycle's snapshot is not disabled.
C27_SnapshotNotDisabled ==
    [][\A sid \in Services :
          (Evaluated(sid) /\ Enqueued(sid, "warn70")' > Enqueued(sid, "warn70")) =>
              services[sid].status # "disabled"]_vars

\* ---------------------------------------------------------------------- C28
\* C28: no step of the monitor takes the persisted status of a service
\* from disabled to anything else, none changes an anchor (exhausted_at,
\* expired_at) that is set, and none deletes the record of a service whose
\* persisted status is not disabled.
C28_OneDirection ==
    [][\A sid \in Services :
          db[sid].exists =>
              /\ db[sid].status = "disabled" => db'[sid].status = "disabled"
              /\ db[sid].exhausted_at # NoTime =>
                    db'[sid].exhausted_at = db[sid].exhausted_at
              /\ db[sid].expired_at # NoTime =>
                    db'[sid].expired_at = db[sid].expired_at
              /\ ~db'[sid].exists => db[sid].status = "disabled"]_vars

\* A service went from active to disabled in one cycle and was deleted in
\* a later one.
C28_Witness ==
    \E sid \in Services :
        /\ ~db[sid].exists
        /\ db[sid].status = "disabled"
        /\ calls[sid].delete_service = 1
        /\ clock > 1

\* ---------------------------------------------------------------------- C29
\* The cycle's record of a service holds an exception of the given phase.
Raised(tr, phase) == Steps(tr, "raise", phase) >= 1

\* C29: a per-service task in which a collaborator raises leaves the task,
\* the store record and the record of steps of every other service as they
\* were, and when the panel tasks end every service of a panel that was
\* not skipped was evaluated or had its own exception; a sweep in which
\* the delete of a service raises still deletes every other service that
\* was due.
C29_FailureContained ==
    /\ [][\A sid \in Services :
              (Evaluated(sid) /\ Raised(trace'[sid], "evaluation")) =>
                  \A other \in Services \ {sid} :
                      /\ (other \in todo') = (other \in todo)
                      /\ db'[other] = db[other]
                      /\ trace'[other] = trace[other]]_vars
    /\ [][Flushed =>
              \A sid \in DOMAIN services \ SkippedServices :
                  panel[sid].present =>
                      \/ StepsOfStage(trace[sid]) = 1
                      \/ Raised(trace[sid], "evaluation")]_vars
    /\ [][Swept =>
              \A sid \in get_services_for_deletion(World) :
                  \/ Raised(trace'[sid], "delete")
                  \/ ~db'[sid].exists /\ Steps(trace'[sid], "delete_service", "") = 1]_vars

\* The delete of one service raised and the other service due in the same
\* sweep was deleted.
C29_Witness ==
    /\ pc = "sleep"
    /\ \E s1, s2 \in Services :
          /\ Raised(trace[s1], "delete")
          /\ db[s1].exists
          /\ ~db[s2].exists
          /\ Steps(trace[s2], "delete_service", "") = 1

\* ---------------------------------------------------------------------- C30
\* C30 as stated (for a service whose user record is found and whose
\* disable on the panel succeeds): the evaluation of a plan service past
\* its expires_at whose stored status is not disabled invokes
\* disable_client once, leaves status = disabled with expired_at set and
\* is_active still true, enqueues one expiry notification and sets
\* warned_expired; no service ever has a second expiry notification.
C30_AsStated ==
    /\ [][\A sid \in Services :
              (Evaluated(sid) /\ ExpiryDue(sid) /\ panel[sid].present
                 /\ db[sid].status # "disabled" /\ HasUser(sid)
                 /\ RemoteResult(trace'[sid], "handle_plan_expiration") = "ok") =>
                  /\ StepsOf(trace'[sid], "disable_client") = 1
                  /\ db'[sid].status = "disabled"
                  /\ db'[sid].expired_at # NoTime
                  /\ db'[sid].is_active
                  /\ Enqueued(sid, "expired")' = Enqueued(sid, "expired") + 1
                  /\ db'[sid].warned_expired]_vars
    /\ [](\A sid \in Services : Enqueued(sid, "expired") <= 1)

\* What the evaluation does guarantee in that case: the expiry handler
\* invokes disable_client once, the exhaustion handler of the same
\* evaluation at most once more, and the rest of C30 as stated.
C30_ExpiryHandled ==
    /\ [][\A sid \in Services :
              (Evaluated(sid) /\ ExpiryDue(sid) /\ panel[sid].present
                 /\ db[sid].status # "disabled" /\ HasUser(sid)
                 /\ RemoteResult(trace'[sid], "handle_plan_expiration") = "ok") =>
                  /\ StepsOf(trace'[sid], "disable_client") \in
                        IF ExhaustionCase(sid) THEN {1, 2} ELSE {1}
                  /\ db'[sid].status = "disabled"
                  /\ db'[sid].expired_at # NoTime
                  /\ db'[sid].is_active
                  /\ Enqueued(sid, "expired")' = Enqueued(sid, "expired") + 1
                  /\ db'[sid].warned_expired]_vars
    /\ [](\A sid \in Services : Enqueued(sid, "expired") <= 1)

\* ---------------------------------------------------------------------- C31
\* The state before an evaluation that finds a plan service with at least
\* one and fewer than four whole days left and the 3-day flag unset.
ThreeDaysCase(sid) ==
    /\ db[sid].product_id # "None"
    /\ db[sid].expires_at # NoTime
    /\ db[sid].expires_at - now >= 24 * 60
    /\ db[sid].expires_at - now < 4 * 24 * 60
    /\ ~db[sid].warned_one_week

NeverTwoThreeDayWarnings ==
    \A sid \in Services : Enqueued(sid, "warn3days") <= 1

C31_ThreeDayWarningOnce ==
    /\ [][\A sid \in Services :
              (Evaluated(sid) /\ panel[sid].present /\ db[sid].product_id # "None") =>
                  IF ThreeDaysCase(sid)
                  THEN /\ Enqueued(sid, "warn3days")' =
                            Enqueued(sid, "warn3days") + (IF HasUser(sid) THEN 1 ELSE 0)
                       /\ db'[sid].warned_one_week
                  ELSE /\ Enqueued(sid, "warn3days")' = Enqueued(sid, "warn3days")
                       /\ db'[sid].warned_one_week = db[sid].warned_one_week]_vars
    /\ []NeverTwoThreeDayWarnings

\* A plan service warned three whole days before its expiry, flag set.
C31_Witness ==
    \E sid \in Services :
        /\ Enqueued(sid, "warn3days") = 1
        /\ db[sid].warned_one_week
        /\ db[sid].expires_at - now >= 3 * 24 * 60
        /\ Steps(trace[sid], "enqueue", "warn3days") = 1

\* ---------------------------------------------------------------------- C32
\* C32: every evaluation that reaches the traffic evaluator (the panel has
\* the client) appends exactly one entry to the update buffer, the id of
\* the service with the usage the panel reports, whatever else the
\* evaluation does; an evaluation that does not reach it appends none.
C32_StagesOnce ==
    [][\A sid \in Services :
          Evaluated(sid) =>
              IF panel[sid].present
              THEN /\ pending_updates' =
                        Append(pending_updates,
                               [id |-> sid, used_gb |-> to_gb(panel[sid].used_traffic)])
                   /\ StepsOfStage(trace'[sid]) = StepsOfStage(trace[sid]) + 1
              ELSE pending_updates' = pending_updates]_vars

\* An evaluation that disabled the service has staged its one entry.
C32_Witness ==
    \E sid \in Services :
        /\ pc = "panels"
        /\ StagedFor(pending_updates, sid) = 1
        /\ Steps(trace[sid], "disable_client", "ok") >= 1
        /\ db[sid].status = "disabled"

\* ---------------------------------------------------------------------- C33
\* The clientStats records of the dump's inbound and its client.
DumpStats == inbounds[1].clientStats
DumpClient == inbounds[1].clients[1]

\* The indices of the records that match the client by id, uuid or the
\* uuid derived from the email.
MatchingStats ==
    {i \in 1 .. Len(DumpStats) :
        \/ DumpStats[i].id = DumpClient.id
        \/ DumpStats[i].uuid = DumpClient.id
        \/ /\ DumpStats[i].email.at
           /\ DumpStats[i].email.len > 30
           /\ DumpStats[i].email.local = DumpClient.id}

FirstMatchTraffic ==
    LET i == CHOOSE i \in MatchingStats : \A j \in MatchingStats : i <= j
    IN  DumpStats[i].up + DumpStats[i].down

EmbeddedTraffic ==
    IF DumpClient.up # Absent /\ DumpClient.down # Absent
    THEN DumpClient.up + DumpClient.down
    ELSE IF DumpClient.upload # Absent /\ DumpClient.download # Absent
         THEN DumpClient.upload + DumpClient.download
         ELSE 0

\* C33 as stated: the used traffic of the client in the result is up + down
\* of the first matching record; only if no record matches is it the
\* traffic embedded on the client object, and zero if there is neither.
C33_AsStated ==
    all_clients # <<>> =>
        all_clients[DumpClient.id].used_traffic =
            IF MatchingStats # {} THEN FirstMatchTraffic ELSE EmbeddedTraffic

\* What the function computes: the first matching record decides unless
\* its up + down is zero; then, as without a match, the embedded fields do.
C33_ZeroFallsThrough ==
    all_clients # <<>> =>
        /\ DOMAIN all_clients = {DumpClient.id}
        /\ all_clients[DumpClient.id].used_traffic =
              IF MatchingStats # {} /\ FirstMatchTraffic # 0
              THEN FirstMatchTraffic ELSE EmbeddedTraffic

\* A client matched by the email of the second record only.
C33_EmailWitness ==
    /\ all_clients # <<>>
    /\ MatchingStats = {2}
    /\ DumpStats[2].id = 0 /\ DumpStats[2].uuid = 0
    /\ all_clients[DumpClient.id].used_traffic = 7

\* ---------------------------------------------------------------------- C34
\* The step is the sleep that ends an iteration of the loop.
Slept == pc = "sleep" /\ pc' = "loop"

\* The time from the start of iteration i to the start of the next one.
StartToStart(i) == cycle_starts[i + 1].at - cycle_starts[i].at

\* C34 as stated: after passes that took elapsed seconds the loop sleeps
\* max(0, 180 - elapsed) seconds; consecutive iterations start exactly
\* 180 s apart when elapsed <= 180 and elapsed apart when elapsed >= 180.
C34_AsStated ==
    /\ [][Slept =>
              wall' - wall = Max(0, 180 * TenthsPerSecond - (wall - check_start_time))]_vars
    /\ [](\A i \in 1 .. Len(cycle_starts) - 1 :
             StartToStart(i) = Max(180 * TenthsPerSecond, cycle_starts[i].took))

\* C34 (amended): the loop sleeps 180 - elapsed seconds when elapsed < 180
\* and a tenth of a second when elapsed >= 180; consecutive iterations
\* start exactly 180 s apart when elapsed < 180, and elapsed plus a tenth
\* of a second apart when elapsed >= 180.
C34_IntervalKept ==
    /\ [][Slept =>
              wall' - wall =
                  IF wall - check_start_time < 180 * TenthsPerSecond
                  THEN 180 * TenthsPerSecond - (wall - check_start_time)
                  ELSE 1]_vars
    /\ [](\A i \in 1 .. Len(cycle_starts) - 1 :
             StartToStart(i) =
                 IF cycle_starts[i].took < 180 * TenthsPerSecond
                 THEN 180 * TenthsPerSecond
                 ELSE cycle_starts[i].took + 1)

\* A short iteration followed by a long one: the second started 180 s after
\* the first, the third a tenth of a second after the passes of the second.
C34_Witness ==
    /\ Len(cycle_starts) = 3
    /\ cycle_starts[1].took = 90 * TenthsPerSecond
    /\ cycle_starts[2].took = 250 * TenthsPerSecond
    /\ cycle_starts[2].at = 180 * TenthsPerSecond
    /\ cycle_starts[3].at = 430 * TenthsPerSecond + 1

\* ---------------------------------------------------------------------- C35
\* The loops whose cycle is in flight, and the workers inside their loop.
CyclesInFlight == {i \in 1 .. Len(loop_tasks) : loop_tasks[i] \in {"cycle", "staged"}}
WorkersWaiting == {i \in 1 .. Len(worker_tasks) : worker_tasks[i] = "waiting"}

\* C35 as stated: whatever the calls of start_monitoring and
\* stop_monitoring were, at most one cycle is in flight and at most one
\* worker is inside its loop.
C35_AsStated ==
    /\ Cardinality(CyclesInFlight) <= 1
    /\ Cardinality(WorkersWaiting) <= 1

\* What does hold: a loop or a worker returns only at its while test and
\* only with the flag cleared, and a call creates exactly one of each.
C35_ReturnsOnlyWhenStopped ==
    [][/\ Len(loop_tasks') = Len(worker_tasks')
       /\ \A i \in 1 .. Len(loop_tasks) :
             (loop_tasks[i] # "returned" /\ loop_tasks'[i] = "returned") =>
                 loop_tasks[i] = "top" /\ ~monitoring
       /\ \A i \in 1 .. Len(worker_tasks) :
             (worker_tasks[i] # "returned" /\ worker_tasks'[i] = "returned") =>
                 worker_tasks[i] = "top" /\ ~monitoring]_vars

\* ---------------------------------------------------------------------- C36
\* C36 as stated, in the form of what it needs: the worker is the only
\* consumer of the queue and never runs again once it has ended, so every
\* enqueued message is eventually dequeued and attempted only if the worker
\* never ends with a message still on the queue or in its hand.
C36_AsStated ==
    worker.pc = "ended" => message_queue = <<>>

\* While the flag is set the worker does not end, and a message leaves the
\* queue only into the hand of the worker, which attempts it.
C36_DequeuedIsAttempted ==
    [][/\ (worker.pc # "ended" /\ worker'.pc = "ended") => ~monitoring
       /\ message_queue' # message_queue =>
             \/ \E m \in DOMAIN message_queue' :
                   message_queue' = Append(message_queue, message_queue'[m])
             \/ /\ message_queue # <<>>
                /\ message_queue' = Tail(message_queue)
                /\ worker'.item = Head(message_queue)
                /\ worker'.pc = "throttle"
       /\ (worker.pc = "throttle" /\ worker'.pc # "throttle") =>
             /\ worker'.pc = "sending"
             /\ sends'[Len(sends')].chat_id = worker.item.chat_id]_vars

\* ---------------------------------------------------------------------- C37
\* C37 as stated: for every service the store's delete_service and the
\* panel's delete_client are invoked at most once and at most one deletion
\* notification is sent, also when the expiry-overage and the
\* exhaustion-overage check both apply in one evaluation.
C37_AsStated ==
    \A sid \in Services :
        /\ calls[sid].delete_service <= 1
        /\ calls[sid].delete_client <= 1
        /\ calls[sid].send_message <= 1

\* What holds: only an evaluation that finds both grace anchors set deletes
\* twice; a sweep, and an evaluation of a service with one anchor, invoke
\* delete_service at most once.
C37_OncePerAnchor ==
    [][\A sid \in Services :
          /\ calls'[sid].delete_service <= calls[sid].delete_service + 2
          /\ calls'[sid].delete_service = calls[sid].delete_service + 2 =>
                /\ Evaluated(sid)
                /\ db[sid].exhausted_at # NoTime
                /\ db[sid].expired_at # NoTime
          /\ calls'[sid].delete_service > calls[sid].delete_service => db[sid].exists
          /\ calls[sid].delete_service > 0 =>
                calls'[sid].delete_service = calls[sid].delete_service]_vars

\* ---------------------------------------------------------------------- C38
\* The positions of the record of steps at which the store deleted the service.
DeletedAt(tr) == {i \in 1 .. Len(tr) : tr[i].op = "delete_service"}

\* The steps that write status, an anchor or a flag of the service.
LifecycleWrites ==
    {"update_service_status", "update_service_exhaustion_time",
     "update_service_expiration_time", "set_flag"}

\* C38 as stated: the bulk write of a cycle holds no entry for a service
\* the cycle has deleted, and in the record of a cycle no write of status,
\* anchor or flag follows the deletion of the service.
C38_AsStated ==
    /\ [][Flushed =>
              \A sid \in Services :
                  DeletedAt(trace[sid]) # {} => StagedFor(pending_updates, sid) = 0]_vars
    /\ [](\A sid \in Services :
             \A i \in DeletedAt(trace[sid]) :
                 \A j \in i + 1 .. Len(trace[sid]) :
                     trace[sid][j].op \notin LifecycleWrites)

\* What holds: no write of status, anchor or flag follows the deletion, and
\* the bulk write leaves the record of a deleted service as it is.
C38_NoLifecycleWriteAfterDelete ==
    /\ [](\A sid \in Services :
             \A i \in DeletedAt(trace[sid]) :
                 \A j \in i + 1 .. Len(trace[sid]) :
                     trace[sid][j].op \notin LifecycleWrites)
    /\ [][\A sid \in Services : ~db[sid].exists => db'[sid] = db[sid]]_vars

\* ---------------------------------------------------------------------- C39
\* C39 as stated: the monitor never calls the messenger's send itself;
\* every notification is handed to the queue.
C39_AsStated ==
    \A sid \in Services : calls[sid].send_message = 0

\* What holds: the warnings and the disable notifications are handed to
\* the queue; the messenger is called directly only by a delete path, once
\* per delete and after the store has deleted the service.
C39_OnlyDeletesSendDirectly ==
    /\ [][\A sid \in Services :
              calls'[sid].send_message - calls[sid].send_message =
                  IF HasUser(sid)
                  THEN calls'[sid].delete_service - calls[sid].delete_service
                  ELSE 0]_vars
    /\ [](\A sid \in Services :
             \A i \in 1 .. Len(message_queue) :
                 message_queue[i].kind \in {"warn70", "exhausted", "warn3days", "expired"})

\* ---------------------------------------------------------------------- C40
\* The step is an evaluation that removes the store record of sid.
DeletedByEvaluation(sid) == Evaluated(sid) /\ db[sid].exists /\ ~db'[sid].exists

\* A grace anchor of the service is set and at most the given age (minutes).
AnchorWithin(sid, age) ==
    \/ db[sid].exhausted_at # NoTime /\ Age(db[sid].exhausted_at) <= age
    \/ /\ db[sid].product_id # "None"
       /\ db[sid].expired_at # NoTime /\ Age(db[sid].expired_at) <= age

\* C40 as stated: an evaluation deletes a service only if its stored status
\* is disabled, a grace anchor is set and younger than 24 hours, and the
\* usage is at or above 110% or the overage at or above 1 GB.
C40_AsStated ==
    [][\A sid \in Services :
          DeletedByEvaluation(sid) =>
              /\ db[sid].status = "disabled"
              /\ AnchorWithin(sid, 24 * 60 - 1)
              /\ Limited(sid) /\ OverLimits(sid)]_vars

\* What holds: the same with an anchor at most 24 hours old; in particular
\* a disabled service below both limits is never deleted by an evaluation.
C40_NeverBelowLimits ==
    [][\A sid \in Services :
          DeletedByEvaluation(sid) =>
              /\ db[sid].status = "disabled"
              /\ AnchorWithin(sid, 24 * 60)
              /\ Limited(sid) /\ OverLimits(sid)]_vars

\* A disabled service at 105% of a quota of 5 GB, a quarter of a GB over,
\* was evaluated in its grace period and is still there.
C40_BelowLimitsWitness ==
    \E sid \in Services :
        /\ pc = "panels" /\ sid \in DOMAIN services /\ sid \notin todo
        /\ db[sid].exists /\ db[sid].status = "disabled"
        /\ services[sid].status = "disabled"
        /\ AnchorWithin(sid, 24 * 60 - 1)
        /\ panel[sid].present
        /\ UsageAtLeast(sid, 100) /\ ~OverLimits(sid)
        /\ StepsOfStage(trace[sid]) = 1

====
